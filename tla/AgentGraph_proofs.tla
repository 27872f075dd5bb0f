------------------------- MODULE AgentGraph_proofs -------------------------
(***************************************************************************)
(* Proofs about AgentGraph, for every set of selections of distinct        *)
(* analysts and every depth.  That no run comes near the recursion limit   *)
(* is not inductive: the number of nodes run so far is bounded at every    *)
(* place of the graph by what the counters of the state allow (Spent), and *)
(* a counter is known to start at zero only because no analyst is selected *)
(* twice (Untouched).                                                      *)
(***************************************************************************)
EXTENDS AgentGraph, SequenceTheorems, FiniteSetTheorems, TLAPS

\* Requests are answered up to the last message.
AnsweredBefore(m, n) ==
  \A i \in 1..(n - 1) : \A k \in 1..m[i].asks : i + k <= n /\ m[i + k].by = "tool"

\* What the message list looks like at each place.
Listed ==
  /\ at = "analyst" => /\ Len(messages) > 0 /\ ~Asks(messages)
                       /\ AnsweredBefore(messages, Len(messages))
                       /\ HasToolResult(messages) => LastMessage(messages).by = "tool"
  /\ at = "tools" => /\ Len(messages) > 0 /\ Asks(messages)
                     /\ AnsweredBefore(messages, Len(messages))
                     /\ current = "fundamentals" => ~HasToolResult(messages)
  /\ at \in {"bull", "bear", "manager", "trader"} => messages = <<Human>>

\* The counters of the analysts still to come have not been touched.
Untouched ==
  /\ \A j \in DOMAIN selected : j > turn => calls[selected[j]] = 0
  /\ at \in {"analyst", "tools"} =>
       IF current = "fundamentals" THEN calls[current] = 0 ELSE calls[current] <= 2
  /\ at = "tools" /\ current # "fundamentals" => calls[current] >= 1

\* How many nodes a run has needed at most.
Before == 6 * (turn - 1)
AllBefore == 24
AfterDebate == AllBefore + 2 * DebateRounds

Spent ==
  /\ at = "analyst" => steps <= Before +
       (IF current = "fundamentals" THEN (IF HasToolResult(messages) THEN 2 ELSE 0)
                                    ELSE 2 * calls[current])
  /\ at = "tools" => steps <= Before +
       (IF current = "fundamentals" THEN 1 ELSE 2 * calls[current] - 1)
  /\ at = "clear" => steps <= Before + 5
  /\ at \in {"bull", "bear", "manager"} => steps <= AllBefore + Len(debate)
  /\ at = "trader" => steps <= AfterDebate + 1
  /\ at \in {"risky", "safe", "neutral", "judge"} => steps <= AfterDebate + 2 + Len(risk)
  /\ at \in {"end", "raised"} => steps <= 99

\* Who may speak follows from how often has been spoken.
Seated ==
  /\ at \in {"analyst", "tools", "clear"} => debate = << >>
  /\ at \in {"bull", "bear"} => /\ Len(debate) < 2 * DebateRounds
                                /\ Len(debate) % 2 = (IF at = "bull" THEN 0 ELSE 1)
  /\ at \in {"manager", "trader", "risky", "safe", "neutral", "judge", "end"} =>
       Len(debate) = 2 * DebateRounds
  /\ at \in {"analyst", "tools", "clear", "bull", "bear", "manager"} => ~plan
  /\ at \in {"trader", "risky", "safe", "neutral", "judge", "end"} => plan
  /\ at \in {"analyst", "tools", "clear", "bull", "bear", "manager", "trader"} => risk = << >>
  /\ at \in {"risky", "safe", "neutral"} =>
       /\ Len(risk) < 3 * RiskRounds
       /\ Len(risk) % 3 = (CASE at = "risky" -> 0 [] at = "safe" -> 1 [] OTHER -> 2)
  /\ at \in {"judge", "end"} => Len(risk) = 3 * RiskRounds
  /\ decision = "none" <=> at # "end"
  /\ at \notin {"analyst", "tools", "clear", "raised"} => turn = Len(selected)

IInv == TypeOK /\ CapsRespected /\ Listed /\ Untouched /\ Spent /\ Seated
-----------------------------------------------------------------------------

\* A selection without repetition has at most four analysts.
LEMMA FewAnalysts ==
  ASSUME NEW s \in Seq(Analysts), Distinct(s)
  PROVE  Len(s) <= 4
<1> SUFFICES ASSUME Len(s) >= 5 PROVE FALSE
  OBVIOUS
<1>1. \A i \in 1..5 : i \in DOMAIN s /\ s[i] \in Analysts
  OBVIOUS
<1>2. \A i, j \in 1..5 : s[i] = s[j] => i = j
  BY <1>1 DEF Distinct
<1> QED
  BY <1>1, <1>2 DEF Analysts

\* The configuration of a run, as the invariant knows it.
LEMMA ConfigFacts ==
  ASSUME TypeOK
  PROVE  /\ selected \in Seq(Analysts) /\ Distinct(selected)
         /\ turn \in 1..Len(selected) /\ Len(selected) \in 1..4
         /\ current \in Analysts
         /\ DebateRounds \in 1..3 /\ RiskRounds \in 1..3
<1>1. selected \in Seq(Analysts) /\ Distinct(selected) /\ selected # << >>
  BY SelectionsAssumption DEF TypeOK
<1>2. Len(selected) \in 1..4
  <2>1. Len(selected) <= 4
    BY <1>1, FewAnalysts
  <2>2. Len(selected) \in Nat \ {0}
    <3>1. \A q \in Seq(Analysts) : q # << >> => Len(q) \in Nat \ {0}
      BY EmptySeq, Zenon
    <3> QED
      BY <1>1, <3>1, Zenon
  <2>3. \A n \in Nat \ {0} : n <= 4 => n \in 1..4
    OBVIOUS
  <2> QED
    BY <2>1, <2>2, <2>3, Zenon
<1>3. depth \in 1..5
  BY DepthsAssumption DEF TypeOK
<1>4. DebateRounds \in 1..3 /\ RiskRounds \in 1..3
  BY <1>3 DEF DebateRounds, RiskRounds
<1> QED
  BY <1>1, <1>2, <1>4 DEF TypeOK, current

\* The messages of the model are messages.
LEMMA MessagesTyped ==
  /\ Human \in Messages /\ Text \in Messages
  /\ \A n \in 0..MaxTools : Request(n) \in Messages
  /\ \A n \in Nat : Results(n) \in Seq(Messages) /\ Len(Results(n)) = n
  BY MaxToolsAssumption DEF Messages, Human, Text, Request, Results

\* The number of tools a message asks for is a number.
LEMMA AsksTyped ==
  ASSUME NEW m \in Seq(Messages), NEW i \in 1..Len(m)
  PROVE  m[i] \in Messages /\ m[i].asks \in Nat
<1>1. m[i] \in Messages
  OBVIOUS
<1>2. m[i].asks \in 0..MaxTools
  BY <1>1 DEF Messages
<1> QED
  BY <1>1, <1>2, MaxToolsAssumption

LEMMA InitInv == Init => IInv
<1> SUFFICES ASSUME Init PROVE IInv
  OBVIOUS
<1>1. selected \in Seq(Analysts) /\ selected # << >>
  BY SelectionsAssumption DEF Init
<1>2. /\ messages \in Seq(Messages) /\ Len(messages) = 1
      /\ messages[1].by = "human" /\ messages[1].asks = 0
  BY MessagesTyped DEF Init, Human
<1>3. TypeOK
  <2>1. 1 \in DOMAIN selected
    BY <1>1, EmptySeq
  <2>2. << >> \in Seq({"bull", "bear"}) /\ << >> \in Seq({"risky", "safe", "neutral"})
    OBVIOUS
  <2> QED
    BY <1>1, <1>2, <2>1, <2>2 DEF Init, TypeOK, Places, Lengths
<1>4. CapsRespected
  BY <1>2 DEF Init, CapsRespected, Requests, HasToolResult, ToolResults
<1>5. Listed
  BY <1>2 DEF Init, Listed, HasToolResult, ToolResults, AnsweredBefore, Asks, LastMessage
<1>6. current \in Analysts
  BY <1>1 DEF Init, current
<1>7. Untouched
  BY <1>1, <1>6 DEF Init, Untouched
<1>8. Spent
  BY <1>1, <1>6, <1>2 DEF Init, Spent, Before, HasToolResult, ToolResults
<1>9. Seated
  BY DEF Init, Seated
<1> QED
  BY <1>3, <1>4, <1>5, <1>7, <1>8, <1>9 DEF IInv

\* What an analyst may append: nothing, a text or a request, or a request
\* that it has served itself.
Appended ==
  {<< >>} \cup {<<Request(n)>> : n \in 0..MaxTools}
          \cup {<<Request(n)>> \o Results(n) \o <<Text>> : n \in 1..MaxTools}

\* What the list looks like afterwards.
LEMMA AppendFacts ==
  ASSUME NEW m \in Seq(Messages), Len(m) > 0, ~Asks(m), AnsweredBefore(m, Len(m)),
         NEW x \in Appended
  PROVE  /\ m \o x \in Seq(Messages) /\ Len(m \o x) > 0
         /\ Asks(m \o x) =>
              /\ AnsweredBefore(m \o x, Len(m \o x))
              /\ ~HasToolResult(m) => ~HasToolResult(m \o x)
<1>1. \A i \in 1..Len(m) : m[i].asks \in Nat /\ m[i] \in Messages
  BY AsksTyped
<1>2. CASE x = << >>
  BY <1>2
<1>3. ASSUME NEW n \in 0..MaxTools, x = <<Request(n)>>
      PROVE  /\ m \o x \in Seq(Messages) /\ Len(m \o x) > 0
             /\ AnsweredBefore(m \o x, Len(m \o x))
             /\ ~HasToolResult(m) => ~HasToolResult(m \o x)
  <2>1. /\ m \o x \in Seq(Messages) /\ Len(m \o x) = Len(m) + 1
        /\ (m \o x)[Len(m) + 1] = Request(n)
        /\ \A i \in 1..Len(m) : (m \o x)[i] = m[i]
    BY <1>3, MessagesTyped
  <2>2. m[Len(m)].asks = 0
    BY <1>1 DEF Asks, LastMessage
  <2>3. AnsweredBefore(m \o x, Len(m \o x))
    <3> SUFFICES ASSUME NEW i \in 1..Len(m), NEW k \in 1..m[i].asks
                 PROVE  i + k <= Len(m) + 1 /\ (m \o x)[i + k].by = "tool"
      BY <2>1 DEF AnsweredBefore
    <3>1. i \in 1..(Len(m) - 1)
      BY <2>2
    <3>2. i + k <= Len(m) /\ m[i + k].by = "tool" /\ i + k \in 1..Len(m)
      BY <3>1, <1>1 DEF AnsweredBefore
    <3> QED
      BY <2>1, <3>2
  <2>4. ~HasToolResult(m) => ~HasToolResult(m \o x)
    <3>1. Request(n).by # "tool"
      BY DEF Request
    <3> QED
      BY <2>1, <3>1 DEF HasToolResult, ToolResults
  <2> QED
    BY <2>1, <2>3, <2>4
<1>4. ASSUME NEW n \in 1..MaxTools, x = <<Request(n)>> \o Results(n) \o <<Text>>
      PROVE  m \o x \in Seq(Messages) /\ Len(m \o x) > 0 /\ ~Asks(m \o x)
  <2>1. /\ <<Request(n)>> \o Results(n) \in Seq(Messages)
        /\ Len(<<Request(n)>> \o Results(n)) = n + 1
    BY MessagesTyped, MaxToolsAssumption
  <2>2. x \in Seq(Messages) /\ Len(x) = n + 2 /\ x[n + 2] = Text
    <3> DEFINE y == <<Request(n)>> \o Results(n)
    <3>1. y \in Seq(Messages) /\ Len(y) = n + 1 /\ x = y \o <<Text>> /\ n \in Nat
      BY <2>1, <1>4, MaxToolsAssumption
    <3> HIDE DEF y
    <3>2. <<Text>> \in Seq(Messages)
      BY MessagesTyped
    <3> QED
      BY <3>1, <3>2
  <2>3. m \o x \in Seq(Messages) /\ Len(m \o x) = Len(m) + n + 2
        /\ (m \o x)[Len(m) + n + 2] = Text
    BY <2>2, MaxToolsAssumption
  <2>4. Text.asks = 0
    BY DEF Text, Request
  <2> QED
    BY <2>3, <2>4 DEF Asks, LastMessage
<1> QED
  BY <1>2, <1>3, <1>4 DEF Appended

\* A list in which no tool has answered holds no request; one request more
\* is then the only one, and a text adds none.
LEMMA RequestFacts ==
  ASSUME NEW m \in Seq(Messages), Len(m) > 0, ~Asks(m), AnsweredBefore(m, Len(m)),
         \A i, j \in Requests(m) : i = j,
         NEW n \in 0..MaxTools, n > 0 => ~HasToolResult(m)
  PROVE  \A i, j \in Requests(m \o <<Request(n)>>) : i = j
<1>1. \A i \in 1..Len(m) : m[i].asks \in Nat
  BY AsksTyped
<1>2. /\ Len(m \o <<Request(n)>>) = Len(m) + 1
      /\ m \o <<Request(n)>> \in Seq(Messages)
      /\ (m \o <<Request(n)>>)[Len(m) + 1] = Request(n)
      /\ \A i \in 1..Len(m) : (m \o <<Request(n)>>)[i] = m[i]
  BY MessagesTyped
<1>3. Request(n).asks = n
  BY DEF Request
<1>4. ASSUME n > 0 PROVE Requests(m) = {}
  <2> SUFFICES ASSUME NEW i \in 1..Len(m), m[i].asks > 0 PROVE FALSE
    BY DEF Requests
  <2>1. i # Len(m)
    BY DEF Asks, LastMessage
  <2>2. 1 \in 1..m[i].asks /\ i \in 1..(Len(m) - 1)
    BY <1>1, <2>1
  <2>3. m[i + 1].by = "tool" /\ i + 1 \in 1..Len(m)
    BY <2>2 DEF AnsweredBefore
  <2> QED
    BY <1>4, <2>3 DEF HasToolResult, ToolResults
<1>5. CASE n = 0
  <2>1. Requests(m \o <<Request(n)>>) \subseteq Requests(m)
    BY <1>2, <1>3, <1>5 DEF Requests
  <2> QED
    BY <2>1
<1>6. CASE n > 0
  <2>1. Requests(m \o <<Request(n)>>) \subseteq {Len(m) + 1}
    BY <1>2, <1>4, <1>6 DEF Requests
  <2> QED
    BY <2>1
<1> QED
  BY <1>5, <1>6

\* The count of tool results is a number, and zero when there are none.
LEMMA CountFacts ==
  ASSUME NEW m \in Seq(Messages)
  PROVE  ToolCount(m) \in Nat /\ (ToolCount(m) = 0 <=> ~HasToolResult(m))
<1>1. ToolResults(m) \in SUBSET (1..Len(m)) /\ 1 \in Int /\ Len(m) \in Int
  BY DEF ToolResults
<1>3. IsFiniteSet(1..Len(m))
  BY <1>1, FS_Interval, Zenon
<1>2. IsFiniteSet(ToolResults(m))
  BY <1>1, <1>3, FS_Subset, Zenon
<1> QED
  BY <1>2, FS_CardinalityType, FS_EmptySet DEF ToolCount, HasToolResult

\* The edge after an analyst goes to the tools node only while its cap allows.
LEMMA RouteFacts ==
  ASSUME NEW a \in Analysts, NEW count \in Nat, NEW length, NEW m
  PROVE  /\ Route(a, count, length, m) \in {"tools", "clear"}
         /\ Route(a, count, length, m) = "tools" =>
              /\ Asks(m)
              /\ IF a = "fundamentals" THEN count = 0 ELSE count <= 2
  BY DEF Route, ShouldContinue, ShouldContinueFundamentals

\* Whatever an analyst leaves behind keeps the invariant.
LEMMA LeaveInv ==
  ASSUME IInv, at = "analyst", NEW length \in Lengths, NEW count \in Nat,
         NEW x \in Appended, Leave(current, length, x, count),
         current # "fundamentals" => count = calls[current] + 1,
         current = "fundamentals" /\ Asks(messages \o x) => ~HasToolResult(messages),
         current = "fundamentals" => \A i, j \in Requests(messages \o x) : i = j,
         UNCHANGED <<config, turn, debate, risk, plan, decision>>, steps' = steps + 1
  PROVE  IInv'
<1> DEFINE m == messages \o x
<1>1. /\ selected' = selected /\ depth' = depth /\ google' = google /\ turn' = turn
      /\ debate' = debate /\ risk' = risk /\ plan' = plan /\ decision' = decision
      /\ current' = current /\ DebateRounds' = DebateRounds /\ RiskRounds' = RiskRounds
  BY DEF config, current, DebateRounds, RiskRounds
<1>2. TypeOK /\ CapsRespected /\ Listed /\ Untouched /\ Spent /\ Seated
  BY DEF IInv
<1>3. /\ selected \in Seq(Analysts) /\ Distinct(selected)
      /\ turn \in 1..Len(selected) /\ Len(selected) \in 1..4 /\ current \in Analysts
      /\ calls \in [Analysts -> Nat] /\ report \in [Analysts -> Lengths] /\ steps \in Nat
  BY <1>2, ConfigFacts DEF TypeOK
<1>4. /\ messages \in Seq(Messages) /\ Len(messages) > 0
      /\ ~Asks(messages) /\ AnsweredBefore(messages, Len(messages))
  BY <1>2 DEF TypeOK, Listed
<1>5. /\ m \in Seq(Messages) /\ Len(m) > 0
      /\ Asks(m) =>
           /\ AnsweredBefore(m, Len(m))
           /\ ~HasToolResult(messages) => ~HasToolResult(m)
  BY <1>4, AppendFacts
<1>6. /\ messages' = m /\ calls' = [calls EXCEPT ![current] = count]
      /\ report' = [report EXCEPT ![current] = length]
      /\ at' = Route(current, count, length, m)
  BY DEF Leave
<1>7. /\ at' \in {"tools", "clear"}
      /\ at' = "tools" => /\ Asks(m)
                          /\ IF current = "fundamentals" THEN count = 0 ELSE count <= 2
  BY <1>3, <1>6, RouteFacts
<1>8. TypeOK'
  BY <1>1, <1>2, <1>3, <1>5, <1>6, <1>7 DEF TypeOK, Places
<1>9. calls'[current] = count /\ \A a \in Analysts \ {current} : calls'[a] = calls[a]
  BY <1>3, <1>6
<1>10. IF current = "fundamentals" THEN calls[current] = 0 ELSE calls[current] <= 2
  BY <1>2 DEF Untouched
<1>11. CapsRespected'
  <2>1. \A a \in Analysts \ {"fundamentals"} : calls'[a] <= 3
    BY <1>2, <1>3, <1>9, <1>10 DEF CapsRespected
  <2>2. current' = "fundamentals" => \A i, j \in Requests(messages') : i = j
    BY <1>1, <1>6
  <2> QED
    BY <2>1, <2>2, <1>7 DEF CapsRespected
<1>12. Listed'
  BY <1>1, <1>5, <1>6, <1>7 DEF Listed
<1>13. Untouched'
  <2>1. \A j \in DOMAIN selected : j > turn => calls'[selected[j]] = 0
    <3> SUFFICES ASSUME NEW j \in DOMAIN selected, j > turn PROVE calls'[selected[j]] = 0
      OBVIOUS
    <3>1. selected[j] \in Analysts /\ selected[j] # current
      BY <1>3 DEF Distinct, current
    <3> QED
      BY <3>1, <1>2, <1>9 DEF Untouched
  <2>2. at' = "tools" => IF current = "fundamentals" THEN calls'[current] = 0
                                                     ELSE calls'[current] \in 1..2
    BY <1>3, <1>7, <1>9
  <2> QED
    BY <2>1, <2>2, <1>1, <1>7, <1>3, <1>6 DEF Untouched
<1>14. Spent'
  <2>1. current # "fundamentals" => steps <= Before + 2 * calls[current]
    BY <1>2 DEF Spent
  <2>2. current = "fundamentals" => steps <= Before + 2
    BY <1>2, <1>3 DEF Spent, Before
  <2>4. Before' = Before /\ Before \in Nat
    BY <1>1, <1>3 DEF Before
  <2>3. ASSUME current = "fundamentals", at' = "tools" PROVE steps <= Before
    <3>1. ~HasToolResult(messages)
      BY <1>5, <1>7, <2>3
    <3> QED
      BY <3>1, <1>2, <1>3, <2>3, <2>4 DEF Spent
  <2>5. at' = "tools" => steps' <= Before' + (IF current' = "fundamentals" THEN 1
                                                   ELSE 2 * calls'[current'] - 1)
    BY <1>1, <1>3, <1>9, <2>1, <2>3, <2>4
  <2>6. at' = "clear" => steps' <= Before' + 5
    BY <1>3, <1>10, <2>1, <2>2, <2>4
  <2> QED
    BY <2>5, <2>6, <1>7 DEF Spent
<1>15. Seated'
  BY <1>1, <1>2, <1>7 DEF Seated
<1> QED
  BY <1>8, <1>11, <1>12, <1>13, <1>14, <1>15 DEF IInv

\* Every analyst is a case of LeaveInv.
LEMMA AnalystInv ==
  ASSUME IInv, RunAnalyst, steps' = steps + 1
  PROVE  IInv'
<1>1. /\ at = "analyst" /\ current \in Analysts /\ calls \in [Analysts -> Nat]
      /\ UNCHANGED <<config, turn, debate, risk, plan, decision>>
      /\ report \in [Analysts -> Lengths] /\ TypeOK
  BY ConfigFacts DEF IInv, TypeOK, RunAnalyst
<1>2. ASSUME current \in {"market", "social", "news"},
             \E length \in Lengths, x \in Appended : Leave(current, length, x, calls[current] + 1)
      PROVE  IInv'
  BY <1>1, <1>2, LeaveInv
<1>3. Text = Request(0) /\ 0 \in 0..MaxTools /\ \A n \in 1..MaxTools : n \in 0..MaxTools /\ n > 0
  BY MaxToolsAssumption DEF Text
<1>4. /\ << >> \in Appended /\ <<Text>> \in Appended
      /\ \A n \in 0..MaxTools : <<Request(n)>> \in Appended
      /\ \A n \in 1..MaxTools : /\ <<Request(n)>> \in Appended
                                /\ <<Request(n)>> \o Results(n) \o <<Text>> \in Appended
  BY <1>3 DEF Appended
<1>5. CASE current = "market" /\ MarketAnalyst
  <2>1. \E length \in Lengths, x \in Appended : Leave("market", length, x, calls["market"] + 1)
    BY <1>4, <1>5 DEF MarketAnalyst, GoogleAnswer, Lengths
  <2> QED
    BY <1>2, <1>5, <2>1
<1>6. CASE current = "social" /\ SocialAnalyst
  <2>1. \E length \in Lengths, x \in Appended : Leave("social", length, x, calls["social"] + 1)
    BY <1>4, <1>6 DEF SocialAnalyst, GoogleAnswer, Lengths
  <2> QED
    BY <1>2, <1>6, <2>1
<1>7. CASE current = "news" /\ NewsAnalyst
  <2>1. \E length \in Lengths, x \in Appended : Leave("news", length, x, calls["news"] + 1)
    BY <1>4, <1>7 DEF NewsAnalyst
  <2> QED
    BY <1>2, <1>7, <2>1
<1>8. CASE current = "fundamentals" /\ FundamentalsAnalyst
  <2>1. /\ calls["fundamentals"] = 0 /\ report["fundamentals"] \in Lengths
        /\ messages \in Seq(Messages) /\ Len(messages) > 0 /\ ~Asks(messages)
        /\ AnsweredBefore(messages, Len(messages))
        /\ \A i, j \in Requests(messages) : i = j
    BY <1>1, <1>8 DEF IInv, Untouched, TypeOK, Listed, CapsRespected
  <2>2. /\ KnownCount \in Nat /\ ToolCount(messages) \in Nat
        /\ (~HasToolResult(messages) => KnownCount = 0)
    BY <2>1, CountFacts DEF KnownCount
  <2>3. ASSUME NEW length \in Lengths, NEW count \in Nat, Leave(current, length, << >>, count)
        PROVE  IInv'
    <3>1. messages \o << >> = messages
      BY <2>1
    <3>2. ~Asks(messages \o << >>)
      BY <2>1, <3>1
    <3>3. \A i, j \in Requests(messages \o << >>) : i = j
      BY <2>1, <3>1
    <3> QED
      BY <1>1, <1>4, <1>8, <2>3, <3>2, <3>3, LeaveInv, Zenon
  <2>4. ASSUME NEW length \in Lengths, NEW count \in Nat, NEW n \in 0..MaxTools,
               Leave(current, length, <<Request(n)>>, count),
               n > 0 => ~HasToolResult(messages)
        PROVE  IInv'
    <3>1. \A i, j \in Requests(messages \o <<Request(n)>>) : i = j
      BY <2>1, <2>4, RequestFacts
    <3>2. Asks(messages \o <<Request(n)>>) => n > 0
      <4>1. /\ Len(messages \o <<Request(n)>>) = Len(messages) + 1
            /\ (messages \o <<Request(n)>>)[Len(messages) + 1] = Request(n)
        BY <2>1, MessagesTyped
      <4> QED
        BY <4>1 DEF Asks, LastMessage, Request
    <3> QED
      BY <1>1, <1>4, <1>8, <2>4, <3>1, <3>2, LeaveInv
  <2>5. ASSUME NEW length \in Lengths, NEW count \in Nat, Leave(current, length, <<Text>>, count)
        PROVE  IInv'
    BY <1>3, <2>4, <2>5
  <2>6. CASE google /\ \E length \in Lengths :
                          Leave("fundamentals", length, << >>, calls["fundamentals"])
    BY <1>8, <2>1, <2>3, <2>6
  <2>7. CASE FundamentalsForced
    BY <1>8, <2>2, <2>5, <2>7 DEF FundamentalsForced
  <2>8. CASE FundamentalsAsks
    BY <1>3, <1>8, <2>1, <2>2, <2>4, <2>8 DEF FundamentalsAsks
  <2>9. CASE FundamentalsAnswers
    BY <1>8, <2>2, <2>3, <2>5, <2>9 DEF FundamentalsAnswers
  <2> QED
    BY <1>8, <2>6, <2>7, <2>8, <2>9 DEF FundamentalsAnalyst
<1> QED
  BY <1>5, <1>6, <1>7, <1>8 DEF RunAnalyst

\* The results of the tools complete the list.
LEMMA ResultsFacts ==
  ASSUME NEW m \in Seq(Messages), Len(m) > 0, Asks(m), AnsweredBefore(m, Len(m)),
         NEW w, w = m \o Results(LastMessage(m).asks)
  PROVE  /\ w \in Seq(Messages) /\ Len(w) > 0 /\ ~Asks(w)
         /\ AnsweredBefore(w, Len(w))
         /\ HasToolResult(w) /\ LastMessage(w).by = "tool"
         /\ Requests(w) = Requests(m)
<1>1. PICK n \in Nat : n > 0 /\ n = m[Len(m)].asks /\ n = LastMessage(m).asks
  BY AsksTyped DEF Asks, LastMessage
<1>2. /\ w \in Seq(Messages) /\ Len(w) = Len(m) + n
      /\ \A i \in 1..Len(m) : w[i] = m[i]
      /\ \A k \in 1..n : w[Len(m) + k] = Results(n)[k]
  <2>1. w = m \o Results(n) /\ Results(n) \in Seq(Messages) /\ Len(Results(n)) = n
    BY <1>1, MessagesTyped
  <2> QED
    BY <2>1, <1>1
<1>3. \A k \in 1..n : w[Len(m) + k].by = "tool" /\ w[Len(m) + k].asks = 0
  <2>1. \A k \in 1..n : Results(n)[k].by = "tool" /\ Results(n)[k].asks = 0
    BY DEF Results
  <2> QED
    BY <1>2, <2>1
<1>7. \A i \in 1..Len(m) : m[i].asks \in Nat
  BY AsksTyped
<1>4. ASSUME NEW i \in 1..Len(w), i > Len(m)
      PROVE  w[i].by = "tool" /\ w[i].asks = 0
  <2>1. Len(m) \in Nat /\ i \in Nat
    BY <1>2
  <2>2. i - Len(m) \in 1..n /\ Len(m) + (i - Len(m)) = i
    BY <1>2, <1>4, <2>1
  <2> QED
    BY <1>3, <2>2
<1>8. Len(w) \in 1..Len(w) /\ Len(w) > Len(m)
  BY <1>1, <1>2
<1>5. AnsweredBefore(w, Len(w))
  <2> SUFFICES ASSUME NEW i \in 1..(Len(w) - 1), NEW k \in 1..w[i].asks
               PROVE  i + k <= Len(w) /\ w[i + k].by = "tool"
    BY DEF AnsweredBefore
  <2>1. i \in 1..Len(m)
    BY <1>2, <1>4
  <2>2. CASE i = Len(m)
    <3>1. w[i].asks = n
      BY <1>1, <1>2, <2>1, <2>2
    <3>2. k \in 1..n
      BY <3>1
    <3> QED
      BY <1>2, <1>3, <2>2, <3>2
  <2>3. CASE i < Len(m)
    <3>1. k \in 1..m[i].asks /\ i \in 1..(Len(m) - 1) /\ m[i].asks \in Nat
      BY <1>2, <1>7, <2>1, <2>3
    <3>2. i + k <= Len(m) /\ m[i + k].by = "tool" /\ i + k \in 1..Len(m)
      BY <3>1 DEF AnsweredBefore
    <3> QED
      BY <1>2, <3>2
  <2> QED
    BY <2>1, <2>2, <2>3
<1>6. Requests(w) = Requests(m)
  <2>1. ASSUME NEW i \in 1..Len(w) PROVE i \in Requests(w) <=> i \in Requests(m)
    <3>1. CASE i > Len(m)
      BY <1>2, <1>4, <3>1 DEF Requests
    <3>2. CASE i \in 1..Len(m)
      BY <1>2, <3>2 DEF Requests
    <3> QED
      BY <1>2, <3>1, <3>2
  <2>2. Requests(w) \subseteq 1..Len(w) /\ Requests(m) \subseteq 1..Len(w)
    BY <1>1, <1>2 DEF Requests
  <2> QED
    BY <2>1, <2>2
<1>9. w[Len(w)].by = "tool" /\ w[Len(w)].asks = 0
  BY <1>4, <1>8
<1> QED
  BY <1>2, <1>5, <1>6, <1>8, <1>9 DEF Asks, LastMessage, HasToolResult, ToolResults

LEMMA ToolsInv ==
  ASSUME IInv, RunTools, steps' = steps + 1
  PROVE  IInv'
<1>1. /\ TypeOK /\ CapsRespected /\ Listed /\ Untouched /\ Spent /\ Seated
      /\ at = "tools" /\ at' = "analyst"
  BY DEF IInv, RunTools
<1>2. /\ selected' = selected /\ depth' = depth /\ google' = google /\ turn' = turn
      /\ debate' = debate /\ risk' = risk /\ plan' = plan /\ decision' = decision
      /\ current' = current /\ calls' = calls /\ report' = report
      /\ DebateRounds' = DebateRounds /\ RiskRounds' = RiskRounds
  BY DEF RunTools, config, current, DebateRounds, RiskRounds
<1>3. /\ messages \in Seq(Messages) /\ Len(messages) > 0 /\ Asks(messages)
      /\ AnsweredBefore(messages, Len(messages))
      /\ messages' = messages \o Results(LastMessage(messages).asks)
  BY <1>1 DEF TypeOK, Listed, RunTools
<1>4. /\ messages' \in Seq(Messages) /\ Len(messages') > 0 /\ ~Asks(messages')
      /\ LastMessage(messages').by = "tool"
      /\ Requests(messages') = Requests(messages)
  BY <1>3, ResultsFacts
<1>5. AnsweredBefore(messages', Len(messages'))
  BY <1>3, ResultsFacts
<1>6. HasToolResult(messages')
  BY <1>3, ResultsFacts
<1>7. TypeOK'
  BY <1>1, <1>2, <1>4, steps' = steps + 1 DEF TypeOK, Places
<1>8. CapsRespected' /\ Listed'
  BY <1>1, <1>2, <1>4, <1>5 DEF CapsRespected, Listed
<1>9. Untouched'
  BY <1>1, <1>2 DEF Untouched
<1>10. Spent'
  <2>1. current \in Analysts /\ turn \in 1..4 /\ calls[current] \in Nat /\ steps \in Nat
    BY <1>1, ConfigFacts DEF TypeOK
  <2>2. steps <= Before + (IF current = "fundamentals" THEN 1 ELSE 2 * calls[current] - 1)
    BY <1>1 DEF Spent
  <2>3. Before' = Before /\ Before \in Nat
    BY <1>2, <2>1 DEF Before
  <2> QED
    BY <1>1, <1>2, <1>6, <2>1, <2>2, <2>3 DEF Spent
<1>11. Seated'
  BY <1>1, <1>2 DEF Seated
<1> QED
  BY <1>7, <1>8, <1>9, <1>10, <1>11 DEF IInv

\* Clearing the messages hands over to the next analyst or opens the debate.
LEMMA ClearInv ==
  ASSUME IInv, ClearMessages, steps' = steps + 1
  PROVE  IInv'
<1>1. /\ TypeOK /\ CapsRespected /\ Listed /\ Untouched /\ Spent /\ Seated /\ at = "clear"
  BY DEF IInv, ClearMessages
<1>2. /\ selected' = selected /\ depth' = depth /\ google' = google
      /\ debate' = debate /\ risk' = risk /\ plan' = plan /\ decision' = decision
      /\ calls' = calls /\ report' = report
      /\ DebateRounds' = DebateRounds /\ RiskRounds' = RiskRounds
  BY DEF ClearMessages, config, DebateRounds, RiskRounds
<1>3. /\ selected \in Seq(Analysts) /\ turn \in 1..Len(selected) /\ Len(selected) \in 1..4
      /\ calls \in [Analysts -> Nat] /\ steps \in Nat /\ DebateRounds \in 1..3
  BY <1>1, ConfigFacts DEF TypeOK
<1>4. /\ messages' = <<Human>> /\ messages' \in Seq(Messages) /\ Len(messages') = 1
      /\ messages'[1].asks = 0 /\ ~HasToolResult(messages')
      /\ \A i, j \in Requests(messages') : i = j
  BY MessagesTyped DEF ClearMessages, DeleteMessages, Human, HasToolResult, ToolResults, Requests
<1>5. Before \in Nat /\ Before = 6 * (turn - 1) /\ steps <= Before + 5
  BY <1>1, <1>3 DEF Before, Spent
<1>6. CapsRespected'
  BY <1>1, <1>2, <1>4 DEF CapsRespected
<1>7. CASE turn < Len(selected)
  <2>1. turn' = turn + 1 /\ at' = "analyst" /\ turn' \in 1..Len(selected)
    BY <1>3, <1>7 DEF ClearMessages
  <2>2. TypeOK'
    BY <1>1, <1>2, <1>3, <1>4, <2>1 DEF TypeOK, Places
  <2>3. Listed'
    BY <1>4, <2>1 DEF Listed, Asks, LastMessage, AnsweredBefore
  <2>4. current' = selected[turn + 1] /\ calls'[current'] = 0
    BY <1>1, <1>2, <1>3, <2>1 DEF current, Untouched
  <2>5. Untouched'
    BY <1>1, <1>2, <1>3, <2>1, <2>4 DEF Untouched
  <2>6. Before' = Before + 6
    BY <1>3, <2>1 DEF Before
  <2>7. Spent'
    BY <1>3, <1>4, <1>5, <2>1, <2>4, <2>6 DEF Spent
  <2>8. Seated'
    BY <1>1, <1>2, <2>1 DEF Seated
  <2> QED
    BY <1>6, <2>2, <2>3, <2>5, <2>7, <2>8 DEF IInv
<1>8. CASE turn = Len(selected)
  <2>1. turn' = turn /\ at' = "bull"
    BY <1>3, <1>8 DEF ClearMessages
  <2>2. TypeOK'
    BY <1>1, <1>2, <1>3, <1>4, <2>1 DEF TypeOK, Places
  <2>3. Listed'
    BY <1>4, <2>1 DEF Listed
  <2>5. Untouched'
    BY <1>1, <1>2, <2>1 DEF Untouched
  <2>6. debate' = << >> /\ Len(debate') = 0
    BY <1>1, <1>2 DEF Seated
  <2>9. steps <= 23
    <3>1. turn \in 1..4 /\ steps \in Nat
      BY <1>3, <1>8
    <3>2. steps <= 6 * (turn - 1) + 5
      BY <1>5
    <3> QED
      BY <3>1, <3>2
  <2>7. Spent'
    BY <1>3, <2>1, <2>6, <2>9 DEF Spent, AllBefore
  <2>8. Seated'
    BY <1>1, <1>2, <1>3, <1>8, <2>1, <2>6 DEF Seated
  <2> QED
    BY <1>6, <2>2, <2>3, <2>5, <2>7, <2>8 DEF IInv
<1> QED
  BY <1>3, <1>7, <1>8

\* One more speech: the turn passes to the other side, or the debate is over.
LEMMA ArgueFacts ==
  ASSUME TypeOK, Seated, NEW speaker \in {"bull", "bear"}, Argue(speaker)
  PROVE  /\ debate' \in Seq({"bull", "bear"}) /\ Len(debate') = Len(debate) + 1
         /\ at' \in {"bull", "bear", "manager"}
         /\ at' = "manager" => Len(debate') = 2 * DebateRounds
         /\ at' \in {"bull", "bear"} =>
              /\ Len(debate') < 2 * DebateRounds
              /\ Len(debate') % 2 = (IF at' = "bull" THEN 0 ELSE 1)
<1>1. /\ debate \in Seq({"bull", "bear"}) /\ DebateRounds \in 1..3 /\ at = speaker
      /\ debate' = Append(debate, speaker) /\ at' = ShouldContinueDebate(debate')
  BY ConfigFacts DEF TypeOK, Argue
<1>2. /\ debate' \in Seq({"bull", "bear"}) /\ Len(debate') = Len(debate) + 1
      /\ Said(debate') = speaker /\ Len(debate) \in Nat
  BY <1>1 DEF Said
<1>3. /\ Len(debate) < 2 * DebateRounds
      /\ Len(debate) % 2 = (IF speaker = "bull" THEN 0 ELSE 1)
  BY <1>1 DEF Seated
<1>4. at' = IF Len(debate') >= 2 * DebateRounds THEN "manager"
            ELSE IF speaker = "bull" THEN "bear" ELSE "bull"
  BY <1>1, <1>2 DEF ShouldContinueDebate
<1> QED
  BY <1>1, <1>2, <1>3, <1>4

LEMMA ArgueInv ==
  ASSUME IInv, BullResearcher \/ BearResearcher, steps' = steps + 1
  PROVE  IInv'
<1>1. PICK speaker \in {"bull", "bear"} : Argue(speaker)
  BY DEF BullResearcher, BearResearcher
<1>2. /\ TypeOK /\ CapsRespected /\ Listed /\ Untouched /\ Spent /\ Seated
      /\ at \in {"bull", "bear"}
  BY <1>1 DEF IInv, Argue
<1>3. /\ selected' = selected /\ depth' = depth /\ google' = google /\ turn' = turn
      /\ risk' = risk /\ plan' = plan /\ decision' = decision /\ messages' = messages
      /\ calls' = calls /\ report' = report
      /\ DebateRounds' = DebateRounds /\ RiskRounds' = RiskRounds
  BY <1>1 DEF Argue, config, DebateRounds, RiskRounds
<1>4. /\ debate' \in Seq({"bull", "bear"}) /\ Len(debate') = Len(debate) + 1
      /\ at' \in {"bull", "bear", "manager"}
      /\ at' = "manager" => Len(debate') = 2 * DebateRounds
      /\ at' \in {"bull", "bear"} =>
           /\ Len(debate') < 2 * DebateRounds
           /\ Len(debate') % 2 = (IF at' = "bull" THEN 0 ELSE 1)
  BY <1>1, <1>2, ArgueFacts
<1>5. TypeOK'
  BY <1>2, <1>3, <1>4, steps' = steps + 1 DEF TypeOK, Places
<1>6. CapsRespected' /\ Listed' /\ Untouched'
  BY <1>2, <1>3, <1>4 DEF CapsRespected, Listed, Untouched, current
<1>7. Spent'
  <2>1. steps \in Nat /\ Len(debate) \in Nat /\ steps <= AllBefore + Len(debate)
    BY <1>2 DEF TypeOK, Spent
  <2> QED
    BY <1>4, <2>1 DEF Spent, AllBefore
<1>8. Seated'
  BY <1>2, <1>3, <1>4 DEF Seated
<1> QED
  BY <1>5, <1>6, <1>7, <1>8 DEF IInv

LEMMA ManagerInv ==
  ASSUME IInv, ResearchManager \/ Trader, steps' = steps + 1
  PROVE  IInv'
<1>1. /\ TypeOK /\ CapsRespected /\ Listed /\ Untouched /\ Spent /\ Seated
  BY DEF IInv
<1>2. /\ selected' = selected /\ depth' = depth /\ google' = google /\ turn' = turn
      /\ debate' = debate /\ risk' = risk /\ decision' = decision
      /\ calls' = calls /\ report' = report
      /\ DebateRounds' = DebateRounds /\ RiskRounds' = RiskRounds
  BY DEF ResearchManager, Trader, config, DebateRounds, RiskRounds
<1>3. steps \in Nat /\ DebateRounds \in 1..3 /\ RiskRounds \in 1..3
  BY <1>1, ConfigFacts DEF TypeOK
<1>4. CASE ResearchManager
  <2>1. at = "manager" /\ at' = "trader" /\ plan' = TRUE /\ messages' = messages
    BY <1>4 DEF ResearchManager
  <2>2. TypeOK' /\ CapsRespected' /\ Listed' /\ Untouched'
    BY <1>1, <1>2, <2>1, steps' = steps + 1
       DEF TypeOK, Places, CapsRespected, Listed, Untouched, current
  <2>5. steps <= AllBefore + Len(debate) /\ Len(debate) = 2 * DebateRounds
    BY <1>1, <2>1 DEF Spent, Seated
  <2>3. Spent'
    BY <1>2, <1>3, <2>1, <2>5 DEF Spent, AfterDebate, AllBefore
  <2>4. Seated'
    BY <1>1, <1>2, <2>1 DEF Seated
  <2> QED
    BY <2>2, <2>3, <2>4 DEF IInv
<1>5. CASE Trader
  <2>1. at = "trader" /\ at' = "risky" /\ plan' = plan /\ messages' = Append(messages, Text)
    BY <1>5 DEF Trader
  <2>2. messages' \in Seq(Messages) /\ \A i, j \in Requests(messages') : i = j
    <3>1. /\ messages' \in Seq(Messages) /\ Len(messages') = 2
          /\ messages'[1] = Human /\ messages'[2] = Text
      BY <1>1, <2>1, MessagesTyped DEF Listed
    <3>2. Human.asks = 0 /\ Text.asks = 0
      BY DEF Human, Text, Request
    <3> QED
      BY <3>1, <3>2 DEF Requests
  <2>3. TypeOK' /\ CapsRespected' /\ Listed' /\ Untouched'
    BY <1>1, <1>2, <2>1, <2>2, steps' = steps + 1
       DEF TypeOK, Places, CapsRespected, Listed, Untouched, current
  <2>4. risk' = << >> /\ Len(risk') = 0
    BY <1>1, <1>2, <2>1 DEF Seated
  <2>5. AfterDebate' = AfterDebate /\ AfterDebate \in Nat /\ steps <= AfterDebate + 1
    BY <1>1, <1>2, <1>3, <2>1 DEF AfterDebate, AllBefore, Spent
  <2>6. Spent'
    BY <1>3, <2>1, <2>4, <2>5 DEF Spent
  <2>7. Seated'
    BY <1>1, <1>2, <1>3, <2>1, <2>4 DEF Seated
  <2> QED
    BY <2>3, <2>6, <2>7 DEF IInv
<1> QED
  BY <1>4, <1>5

\* One more contribution to the discussion.
LEMMA DiscussFacts ==
  ASSUME TypeOK, Seated, NEW speaker \in {"risky", "safe", "neutral"}, Discuss(speaker)
  PROVE  /\ risk' \in Seq({"risky", "safe", "neutral"}) /\ Len(risk') = Len(risk) + 1
         /\ at' \in {"risky", "safe", "neutral", "judge"}
         /\ at' = "judge" => Len(risk') = 3 * RiskRounds
         /\ at' \in {"risky", "safe", "neutral"} =>
              /\ Len(risk') < 3 * RiskRounds
              /\ Len(risk') % 3 = (CASE at' = "risky" -> 0 [] at' = "safe" -> 1 [] OTHER -> 2)
<1>1. /\ risk \in Seq({"risky", "safe", "neutral"}) /\ RiskRounds \in 1..3 /\ at = speaker
      /\ risk' = Append(risk, speaker) /\ at' = ShouldContinueRisk(risk')
  BY ConfigFacts DEF TypeOK, Discuss
<1>2. /\ risk' \in Seq({"risky", "safe", "neutral"}) /\ Len(risk') = Len(risk) + 1
      /\ Said(risk') = speaker /\ Len(risk) \in Nat
  BY <1>1 DEF Said
<1>3. /\ Len(risk) < 3 * RiskRounds
      /\ speaker = "risky" => Len(risk) % 3 = 0
      /\ speaker = "safe" => Len(risk) % 3 = 1
      /\ speaker = "neutral" => Len(risk) % 3 = 2
  BY <1>1 DEF Seated
<1>4. /\ Len(risk') >= 3 * RiskRounds => at' = "judge"
      /\ Len(risk') < 3 * RiskRounds =>
           /\ speaker = "risky" => at' = "safe"
           /\ speaker = "safe" => at' = "neutral"
           /\ speaker = "neutral" => at' = "risky"
  BY <1>1, <1>2 DEF ShouldContinueRisk
<1> QED
  BY <1>1, <1>2, <1>3, <1>4

LEMMA DiscussInv ==
  ASSUME IInv, RiskyAnalyst \/ SafeAnalyst \/ NeutralAnalyst, steps' = steps + 1
  PROVE  IInv'
<1>1. PICK speaker \in {"risky", "safe", "neutral"} : Discuss(speaker)
  BY DEF RiskyAnalyst, SafeAnalyst, NeutralAnalyst
<1>2. /\ TypeOK /\ CapsRespected /\ Listed /\ Untouched /\ Spent /\ Seated
      /\ at \in {"risky", "safe", "neutral"}
  BY <1>1 DEF IInv, Discuss
<1>3. /\ selected' = selected /\ depth' = depth /\ google' = google /\ turn' = turn
      /\ debate' = debate /\ plan' = plan /\ decision' = decision /\ messages' = messages
      /\ calls' = calls /\ report' = report
      /\ DebateRounds' = DebateRounds /\ RiskRounds' = RiskRounds
  BY <1>1 DEF Discuss, config, DebateRounds, RiskRounds
<1>4. /\ risk' \in Seq({"risky", "safe", "neutral"}) /\ Len(risk') = Len(risk) + 1
      /\ at' \in {"risky", "safe", "neutral", "judge"}
      /\ at' = "judge" => Len(risk') = 3 * RiskRounds
      /\ at' \in {"risky", "safe", "neutral"} =>
           /\ Len(risk') < 3 * RiskRounds
           /\ Len(risk') % 3 = (CASE at' = "risky" -> 0 [] at' = "safe" -> 1 [] OTHER -> 2)
  BY <1>1, <1>2, DiscussFacts
<1>5. TypeOK'
  BY <1>2, <1>3, <1>4, steps' = steps + 1 DEF TypeOK, Places
<1>6. CapsRespected' /\ Listed' /\ Untouched'
  BY <1>2, <1>3, <1>4 DEF CapsRespected, Listed, Untouched, current
<1>7. Spent'
  <2>1. steps \in Nat /\ Len(risk) \in Nat /\ DebateRounds \in 1..3
    BY <1>2, ConfigFacts DEF TypeOK
  <2>2. steps <= AfterDebate + 2 + Len(risk)
    BY <1>2 DEF Spent
  <2>3. AfterDebate' = AfterDebate /\ AfterDebate \in Nat
    BY <1>3, <2>1 DEF AfterDebate, AllBefore
  <2> QED
    BY <1>4, <2>1, <2>2, <2>3 DEF Spent
<1>8. Seated'
  BY <1>2, <1>3, <1>4 DEF Seated
<1> QED
  BY <1>5, <1>6, <1>7, <1>8 DEF IInv

\* At no place has a run used so many nodes that the next is its last one.
LEMMA FewSteps == IInv /\ at \notin {"end", "raised"} => steps <= 60
<1> SUFFICES ASSUME IInv, at \notin {"end", "raised"} PROVE steps <= 60
  OBVIOUS
<1>1. TypeOK /\ CapsRespected /\ Untouched /\ Spent /\ Seated
  BY DEF IInv
<1>2. /\ turn \in 1..4 /\ current \in Analysts /\ DebateRounds \in 1..3
      /\ RiskRounds \in 1..3 /\ steps \in Nat
  BY <1>1, ConfigFacts DEF TypeOK
<1>3. /\ current # "fundamentals" => calls[current] \in 0..3
      /\ Len(debate) \in Nat /\ Len(risk) \in Nat
  BY <1>1, <1>2 DEF TypeOK, CapsRespected
<1>4. Before \in 0..18 /\ AfterDebate \in 26..30 /\ AllBefore = 24
  BY <1>2 DEF Before, AfterDebate, AllBefore
<1>5. CASE at \in {"analyst", "tools", "clear"}
  BY <1>1, <1>2, <1>3, <1>4, <1>5 DEF Spent
<1>6. CASE at \in {"bull", "bear", "manager"}
  <2>1. Len(debate) <= 6
    BY <1>1, <1>2, <1>3, <1>6 DEF Seated
  <2> QED
    BY <1>1, <1>2, <1>3, <1>4, <1>6, <2>1 DEF Spent
<1>7. CASE at = "trader"
  BY <1>1, <1>2, <1>4, <1>7 DEF Spent
<1>8. CASE at \in {"risky", "safe", "neutral", "judge"}
  <2>1. Len(risk) <= 9
    BY <1>1, <1>2, <1>3, <1>8 DEF Seated
  <2> QED
    BY <1>1, <1>2, <1>3, <1>4, <1>8, <2>1 DEF Spent
<1> QED
  BY <1>1, <1>5, <1>6, <1>7, <1>8 DEF TypeOK, Places

LEMMA JudgeInv ==
  ASSUME IInv, RiskJudge, steps' = steps + 1
  PROVE  IInv'
<1>1. /\ TypeOK /\ CapsRespected /\ Listed /\ Untouched /\ Spent /\ Seated
      /\ at = "judge" /\ at' = "end" /\ decision' \in {"model", "default"}
  BY DEF IInv, RiskJudge
<1>2. /\ selected' = selected /\ depth' = depth /\ google' = google /\ turn' = turn
      /\ debate' = debate /\ risk' = risk /\ plan' = plan /\ messages' = messages
      /\ calls' = calls /\ report' = report
      /\ DebateRounds' = DebateRounds /\ RiskRounds' = RiskRounds
  BY DEF RiskJudge, config, DebateRounds, RiskRounds
<1>3. TypeOK'
  BY <1>1, <1>2, steps' = steps + 1 DEF TypeOK, Places
<1>4. CapsRespected' /\ Listed' /\ Untouched'
  BY <1>1, <1>2 DEF CapsRespected, Listed, Untouched, current
<1>5. Spent'
  BY <1>1, FewSteps DEF Spent, TypeOK
<1>6. Seated'
  BY <1>1, <1>2 DEF Seated
<1> QED
  BY <1>3, <1>4, <1>5, <1>6 DEF IInv

LEMMA RaiseInv ==
  ASSUME IInv, ModelRaises, steps' = steps + 1
  PROVE  IInv'
<1>1. /\ TypeOK /\ CapsRespected /\ Listed /\ Untouched /\ Spent /\ Seated
      /\ at \notin {"end", "raised"} /\ at' = "raised"
  BY DEF IInv, ModelRaises
<1>2. /\ selected' = selected /\ depth' = depth /\ google' = google /\ turn' = turn
      /\ debate' = debate /\ risk' = risk /\ plan' = plan /\ messages' = messages
      /\ calls' = calls /\ report' = report /\ decision' = decision
  BY DEF ModelRaises, config
<1>3. TypeOK'
  BY <1>1, <1>2, steps' = steps + 1 DEF TypeOK, Places
<1>4. CapsRespected' /\ Listed' /\ Untouched'
  BY <1>1, <1>2 DEF CapsRespected, Listed, Untouched, current
<1>5. Spent'
  BY <1>1, FewSteps DEF Spent, TypeOK
<1>6. Seated'
  BY <1>1, <1>2 DEF Seated
<1> QED
  BY <1>3, <1>4, <1>5, <1>6 DEF IInv
-----------------------------------------------------------------------------

\* A step that changes nothing keeps the invariant.
LEMMA StutterInv ==
  ASSUME IInv, UNCHANGED vars
  PROVE  IInv'
  BY DEF IInv, vars, config, TypeOK, CapsRespected, Listed, Untouched, Spent, Seated,
         current, Before, AllBefore, AfterDebate, DebateRounds, RiskRounds

\* The invariant is inductive.
LEMMA InductiveStep == IInv /\ [Next]_vars => IInv'
<1> SUFFICES ASSUME IInv, [Next]_vars PROVE IInv'
  OBVIOUS
<1>1. CASE UNCHANGED vars
  BY <1>1, StutterInv
<1>2. CASE Next
  BY <1>2, AnalystInv, ToolsInv, ClearInv, ArgueInv, ManagerInv, DiscussInv, JudgeInv,
     RaiseInv DEF Next, RunNode
<1> QED
  BY <1>1, <1>2

\* Every state of the graph satisfies the inductive invariant.
THEOREM Inductive == Spec => []IInv
  BY InitInv, InductiveStep, PTL DEF Spec

\* The state of the graph is always of its type; in particular every edge
\* leads to a node that exists.
THEOREM TypeCorrect == Spec => []TypeOK
<1>1. IInv => TypeOK
  BY DEF IInv
<1> QED
  BY <1>1, Inductive, PTL

\* The caps on the runs of an analyst and on the requests of the fundamentals
\* analyst hold, and none mistakes tool results of another for its own.
THEOREM CapsHold == Spec => []CapsRespected
<1>1. IInv => CapsRespected
  BY DEF IInv
<1> QED
  BY <1>1, Inductive, PTL

\* Every model finds a message list in which all requests are answered.
THEOREM NoOpenRequests == Spec => []RequestsAnswered
<1>1. IInv => RequestsAnswered
  <2> SUFFICES ASSUME IInv, at \in {"analyst", "trader"},
                      NEW i \in DOMAIN messages, NEW k \in 1..messages[i].asks
               PROVE  i + k <= Len(messages) /\ messages[i + k].by = "tool"
    BY DEF RequestsAnswered
  <2>1. Listed /\ messages \in Seq(Messages)
    BY DEF IInv, TypeOK
  <2>2. CASE at = "analyst"
    <3>1. messages[Len(messages)].asks \in Nat /\ ~(messages[Len(messages)].asks > 0)
      BY <2>1, <2>2, AsksTyped DEF Listed, Asks, LastMessage
    <3>2. i \in 1..(Len(messages) - 1)
      BY <2>1, <3>1
    <3> QED
      BY <2>1, <2>2, <3>2 DEF Listed, AnsweredBefore
  <2>3. CASE at = "trader"
    BY <2>1, <2>3 DEF Listed, Human
  <2> QED
    BY <2>2, <2>3
<1> QED
  BY <1>1, Inductive, PTL

\* No selection of distinct analysts and no depth reaches the recursion limit.
THEOREM LimitNeverReached == Spec => []WithinRecursionLimit
<1>1. IInv => WithinRecursionLimit
  <2> SUFFICES ASSUME IInv PROVE steps < 100
    BY DEF WithinRecursionLimit, RecursionLimit
  <2>1. steps \in Nat
    BY DEF IInv, TypeOK
  <2>2. CASE at \in {"end", "raised"}
    BY <2>1, <2>2 DEF IInv, Spent
  <2>3. CASE at \notin {"end", "raised"}
    BY <2>1, <2>3, FewSteps
  <2> QED
    BY <2>2, <2>3
<1> QED
  BY <1>1, Inductive, PTL

\* A decision comes after every selected analyst, both debates and the plan.
THEOREM DecisionsInformed == Spec => []DecisionIsInformed
<1>1. IInv => DecisionIsInformed
  BY DEF IInv, Seated, DecisionIsInformed
<1> QED
  BY <1>1, Inductive, PTL

\* The investment debate takes the turns of a round table.
THEOREM DebateTakesTurns == Spec => DebateIsRoundTable
<1>1. Init => Debate!Init
  <2> SUFFICES ASSUME Init PROVE Debate!Init
    OBVIOUS
  <2>1. DebateRounds \in 1..3
    BY InitInv, ConfigFacts DEF IInv
  <2> QED
    BY <2>1 DEF Init, Debate!Init
<1>2. IInv /\ IInv' /\ [Next]_vars => [Debate!Next]_<<DebateRounds, debate, plan>>
  <2> SUFFICES ASSUME IInv, IInv', [Next]_vars
               PROVE  [Debate!Next]_<<DebateRounds, debate, plan>>
    OBVIOUS
  <2>1. /\ TypeOK /\ Seated /\ debate \in Seq({"bull", "bear"}) /\ plan \in BOOLEAN
        /\ DebateRounds \in 1..3
    BY ConfigFacts DEF IInv, TypeOK
  <2>2. DebateRounds' = DebateRounds
    BY DEF vars, config, Next, RunNode, RunAnalyst, RunTools, ClearMessages, BullResearcher,
       BearResearcher, Argue, ResearchManager, Trader, RiskyAnalyst, SafeAnalyst,
       NeutralAnalyst, Discuss, RiskJudge, ModelRaises, DebateRounds
  <2>3. ASSUME NEW speaker \in {"bull", "bear"}, Argue(speaker) PROVE Debate!Next
    <3>1. /\ ~plan /\ Len(debate) < 2 * DebateRounds /\ plan' = plan
          /\ debate' = Append(debate, speaker)
          /\ Len(debate) % 2 = (IF speaker = "bull" THEN 0 ELSE 1)
      BY <2>1, <2>3 DEF Argue, Seated
    <3>2. Len(<<"bull", "bear">>) = 2 /\ Debate!NextSpeaker = speaker
      BY <2>1, <3>1 DEF Debate!NextSpeaker
    <3> QED
      BY <2>1, <2>2, <3>1, <3>2 DEF Debate!Next, Debate!Speak, Debate!Turns
  <2>4. CASE ResearchManager
    <3>1. /\ ~plan /\ plan' = TRUE /\ debate' = debate /\ Len(debate) = 2 * DebateRounds
      BY <2>1, <2>4 DEF ResearchManager, Seated
    <3>2. Len(<<"bull", "bear">>) = 2
      OBVIOUS
    <3>3. Len(debate) = Debate!Turns
      BY <2>1, <3>1, <3>2 DEF Debate!Turns
    <3> QED
      BY <2>2, <3>1, <3>3, Zenon DEF Debate!Next, Debate!Decide
  <2>5. ASSUME ~(BullResearcher \/ BearResearcher \/ ResearchManager)
        PROVE  debate' = debate /\ plan' = plan
    BY <2>5 DEF vars, Next, RunNode, RunAnalyst, RunTools, ClearMessages, Trader,
       RiskyAnalyst, SafeAnalyst, NeutralAnalyst, Discuss, RiskJudge, ModelRaises
  <2>6. ASSUME ~(BullResearcher \/ BearResearcher \/ ResearchManager)
        PROVE  UNCHANGED <<DebateRounds, debate, plan>>
    BY <2>2, <2>5, <2>6, Zenon
  <2>7. BullResearcher \/ BearResearcher => Debate!Next
    BY <2>3 DEF BullResearcher, BearResearcher
  <2> QED
    BY <2>4, <2>6, <2>7
<1> QED
  BY <1>1, <1>2, Inductive, PTL DEF Spec, DebateIsRoundTable, Debate!Spec, Debate!tableVars

\* So does the discussion of the risk.
THEOREM DiscussionTakesTurns == Spec => RiskIsRoundTable
<1> DEFINE decided == decision # "none"
<1>1. Init => Risk!Init
  <2> SUFFICES ASSUME Init PROVE Risk!Init
    OBVIOUS
  <2>1. RiskRounds \in 1..3
    BY InitInv, ConfigFacts DEF IInv
  <2> QED
    BY <2>1 DEF Init, Risk!Init
<1>2. IInv /\ IInv' /\ [Next]_vars => [Risk!Next]_<<RiskRounds, risk, decided>>
  <2> SUFFICES ASSUME IInv, IInv', [Next]_vars
               PROVE  [Risk!Next]_<<RiskRounds, risk, decided>>
    OBVIOUS
  <2>1. /\ TypeOK /\ Seated /\ risk \in Seq({"risky", "safe", "neutral"})
        /\ RiskRounds \in 1..3
    BY ConfigFacts DEF IInv, TypeOK
  <2>2. RiskRounds' = RiskRounds
    BY DEF vars, config, Next, RunNode, RunAnalyst, RunTools, ClearMessages, BullResearcher,
       BearResearcher, Argue, ResearchManager, Trader, RiskyAnalyst, SafeAnalyst,
       NeutralAnalyst, Discuss, RiskJudge, ModelRaises, RiskRounds
  <2>3. ASSUME NEW speaker \in {"risky", "safe", "neutral"}, Discuss(speaker) PROVE Risk!Next
    <3>1. /\ decision = "none" /\ decision' = decision /\ Len(risk) < 3 * RiskRounds
          /\ risk' = Append(risk, speaker)
          /\ speaker = "risky" => Len(risk) % 3 = 0
          /\ speaker = "safe" => Len(risk) % 3 = 1
          /\ speaker = "neutral" => Len(risk) % 3 = 2
      BY <2>1, <2>3 DEF Discuss, Seated
    <3>2. Len(<<"risky", "safe", "neutral">>) = 3 /\ Risk!NextSpeaker = speaker
      BY <2>1, <3>1 DEF Risk!NextSpeaker
    <3> QED
      BY <2>1, <2>2, <3>1, <3>2 DEF Risk!Next, Risk!Speak, Risk!Turns
  <2>4. CASE RiskJudge
    <3>1. decision = "none" /\ decision' # "none" /\ risk' = risk /\ Len(risk) = 3 * RiskRounds
      BY <2>1, <2>4 DEF RiskJudge, Seated
    <3>2. Len(<<"risky", "safe", "neutral">>) = 3
      OBVIOUS
    <3> QED
      BY <2>1, <2>2, <3>1, <3>2 DEF Risk!Next, Risk!Decide, Risk!Turns
  <2>5. ASSUME ~(RiskyAnalyst \/ SafeAnalyst \/ NeutralAnalyst \/ RiskJudge)
        PROVE  risk' = risk /\ decision' = decision
    BY <2>5 DEF vars, Next, RunNode, RunAnalyst, RunTools, ClearMessages, BullResearcher,
       BearResearcher, Argue, ResearchManager, Trader, ModelRaises
  <2> QED
    BY <2>2, <2>3, <2>4, <2>5 DEF RiskyAnalyst, SafeAnalyst, NeutralAnalyst
<1> QED
  BY <1>1, <1>2, Inductive, PTL DEF Spec, RiskIsRoundTable, Risk!Spec, Risk!tableVars
=============================================================================
