----------------------------- MODULE AgentGraph -----------------------------
(***************************************************************************)
(* The graph of language-model agents that makes one analysis              *)
(* (tradingagents/graph, tradingagents/agents).  One step is one node of   *)
(* the compiled LangGraph, which runs one node at a time, together with    *)
(* the conditional edge that follows it.  What a model answers is chosen   *)
(* freely: how many tools it asks for, and how long its text is compared   *)
(* with the thresholds the code uses.  Reports, speeches and prompts are   *)
(* otherwise left out.                                                     *)
(***************************************************************************)
EXTENDS Naturals, Sequences, FiniteSets

CONSTANTS Selections,   \* the sequences of analysts a request may select
          Depths,       \* the research depths it may ask for
          MaxTools      \* bound: the most tools that one answer of a model asks for

VARIABLES
  selected,   \* the analysts of this analysis, in order
  depth,      \* its research depth
  google,     \* whether the models are Google's
  at,         \* the node that runs next
  turn,       \* the position of the current analyst in selected
  messages,   \* the message list of the graph state
  calls,      \* <analyst>_tool_call_count
  report,     \* the length of <analyst>_report
  debate,     \* who spoke in the investment debate (its count is the length)
  risk,       \* who spoke in the risk discussion
  plan,       \* investment_plan is set
  decision,   \* final_trade_decision: "none", the judge's own, or the default
  steps       \* nodes run so far

config == <<selected, depth, google>>
vars == <<config, at, turn, messages, calls, report, debate, risk, plan, decision, steps>>

Analysts == {"market", "social", "news", "fundamentals"}

(* The lengths the code tells apart: up to 100 (or no text at all), up to  *)
(* 500 and above (the fundamentals analyst).                               *)
Lengths == {"short", "long", "full"}
Finished(length) == length \in {"long", "full"}

Distinct(s) == \A i, j \in DOMAIN s : s[i] = s[j] => i = j

ASSUME SelectionsAssumption ==
  \A s \in Selections : s \in Seq(Analysts) /\ s # << >> /\ Distinct(s)
ASSUME DepthsAssumption == Depths \subseteq 1..5
ASSUME MaxToolsAssumption == MaxTools \in Nat \ {0}

DebateRounds == <<1, 1, 1, 2, 3>>[depth]
RiskRounds   == <<1, 1, 2, 2, 3>>[depth]
RecursionLimit == 100

(* A message is known by its author and the number of tools it asks for;   *)
(* each tool answers with a message of its own.                            *)
Messages == [by : {"human", "ai", "tool"}, asks : 0..MaxTools]
Human == [by |-> "human", asks |-> 0]
Request(n) == [by |-> "ai", asks |-> n]
Text == Request(0)
Results(n) == [i \in 1..n |-> [by |-> "tool", asks |-> 0]]

LastMessage(m) == m[Len(m)]
Asks(m) == LastMessage(m).asks > 0
ToolResults(m) == {i \in DOMAIN m : m[i].by = "tool"}
HasToolResult(m) == ToolResults(m) # {}

Places == {"analyst", "tools", "clear", "bull", "bear", "manager", "trader",
           "risky", "safe", "neutral", "judge", "end", "raised"}

current == selected[turn]

Init == /\ selected \in Selections
        /\ depth \in Depths
        /\ google \in BOOLEAN
        /\ at = "analyst" /\ turn = 1
        /\ messages = <<Human>>
        /\ calls = [a \in Analysts |-> 0]
        /\ report = [a \in Analysts |-> "short"]
        /\ debate = << >> /\ risk = << >>
        /\ plan = FALSE /\ decision = "none"
        /\ steps = 0

-----------------------------------------------------------------------------
(* Conditional edges after an analyst, on the state the analyst left.      *)

ShouldContinue(a, count, length, m) ==
  IF count >= 3 \/ Finished(length) \/ ~Asks(m) THEN "clear" ELSE "tools"

ShouldContinueFundamentals(count, length, m) ==
  IF Finished(length) \/ ~Asks(m) \/ count >= 1 THEN "clear" ELSE "tools"

(* Wrong variant: the edge without the caps.                               *)
RouteUncapped(a, count, length, m) ==
  IF Finished(length) \/ ~Asks(m) THEN "clear" ELSE "tools"

Route(a, count, length, m) ==
  IF a = "fundamentals" THEN ShouldContinueFundamentals(count, length, m)
                        ELSE ShouldContinue(a, count, length, m)

(* An analyst leaves a report of some length, appends its messages and     *)
(* sets its counter; the edge is taken on the new state.                   *)
Leave(a, length, appended, count) ==
  /\ report' = [report EXCEPT ![a] = length]
  /\ messages' = messages \o appended
  /\ calls' = [calls EXCEPT ![a] = count]
  /\ at' = Route(a, count, length, messages \o appended)

(* With Google models a handler runs the tools and asks again itself, but  *)
(* the analyst appends only the first answer; its text may have any length.*)
GoogleAnswer(a) ==
  \E n \in 0..MaxTools, length \in Lengths : Leave(a, length, <<Request(n)>>, calls[a] + 1)

(* Without tools the text is the report.  Otherwise the market analyst     *)
(* runs the tools itself and asks again, a model that is offered no tools; *)
(* if that fails it leaves the request behind.                             *)
MarketAnalyst ==
  \/ google /\ GoogleAnswer("market")
  \/ ~google /\ \E length \in Lengths :
       Leave("market", length, <<Text>>, calls["market"] + 1)
  \/ ~google /\ \E n \in 1..MaxTools, length \in Lengths :
       Leave("market", length, <<Request(n)>> \o Results(n) \o <<Text>>, calls["market"] + 1)
  \/ ~google /\ \E n \in 1..MaxTools, length \in {"short", "long"} :
       Leave("market", length, <<Request(n)>>, calls["market"] + 1)

SocialAnalyst ==
  \/ google /\ GoogleAnswer("social")
  \/ ~google /\ \E n \in 1..MaxTools :
       Leave("social", "short", <<Request(n)>>, calls["social"] + 1)
  \/ ~google /\ \E length \in Lengths :
       Leave("social", length, <<Text>>, calls["social"] + 1)

(* The news analyst appends its report as a new message, without requests. *)
NewsAnalyst ==
  \E length \in Lengths : Leave("news", length, <<Text>>, calls["news"] + 1)

(* The fundamentals analyst counts the tool results it finds, whatever     *)
(* request they answer: two tools asked for at once count as two.          *)
ToolCount(m) == Cardinality(ToolResults(m))
KnownCount == IF ToolCount(messages) > calls["fundamentals"] THEN ToolCount(messages)
                                                             ELSE calls["fundamentals"]

FundamentalsForced ==        \* asks for tools again although it has results
  /\ HasToolResult(messages)
  /\ \E length \in Lengths : Leave("fundamentals", length, <<Text>>, KnownCount)

FundamentalsAsks ==          \* the first request, executed by the tools node
  /\ ~HasToolResult(messages)
  /\ \E n \in 1..MaxTools :
       IF KnownCount >= 1 THEN Leave("fundamentals", "short", <<Request(n)>>, KnownCount)
                          ELSE Leave("fundamentals", report["fundamentals"], <<Request(n)>>,
                                     calls["fundamentals"])

FundamentalsAnswers ==       \* a text without a request
  \E length \in Lengths :
    IF HasToolResult(messages) \/ length = "full"
    THEN Leave("fundamentals", length, <<Text>>, ToolCount(messages))
    ELSE \E direct \in Lengths :   \* fetches the data itself, appends no message
           Leave("fundamentals", direct, << >>, ToolCount(messages))

FundamentalsAnalyst ==
  \/ google /\ \E length \in Lengths :
       Leave("fundamentals", length, << >>, calls["fundamentals"])
  \/ ~google /\ (FundamentalsForced \/ FundamentalsAsks \/ FundamentalsAnswers)

RunAnalyst ==
  /\ at = "analyst"
  /\ \/ current = "market" /\ MarketAnalyst
     \/ current = "social" /\ SocialAnalyst
     \/ current = "news" /\ NewsAnalyst
     \/ current = "fundamentals" /\ FundamentalsAnalyst
  /\ UNCHANGED <<config, turn, debate, risk, plan, decision>>

(* The tools node runs every tool the last message asks for; one that      *)
(* fails answers with its error.                                           *)
RunTools ==
  /\ at = "tools"
  /\ messages' = messages \o Results(LastMessage(messages).asks)
  /\ at' = "analyst"
  /\ UNCHANGED <<config, turn, calls, report, debate, risk, plan, decision>>

(* Wrong variant: the removal is forgotten.                                *)
KeepMessages(m) == Append(m, Human)
(* Every message is removed and a placeholder put in their place.          *)
DeleteMessages(m) == <<Human>>

ClearMessages ==
  /\ at = "clear"
  /\ messages' = DeleteMessages(messages)
  /\ IF turn < Len(selected) THEN turn' = turn + 1 /\ at' = "analyst"
                             ELSE turn' = turn /\ at' = "bull"
  /\ UNCHANGED <<config, calls, report, debate, risk, plan, decision>>
-----------------------------------------------------------------------------
(* The investment debate and the risk discussion.                          *)

Said(s) == s[Len(s)]

(* Wrong variants: no end, rounds counted as speeches of all sides together, *)
(* one speaker followed by the wrong one, a node by the name of its file.  *)
NeverStop(s) == IF Said(s) = "bull" THEN "bear" ELSE "bull"
StopEarly(s) ==
  IF Len(s) >= DebateRounds THEN "manager"
  ELSE IF Said(s) = "bull" THEN "bear" ELSE "bull"
SkipNeutral(s) ==
  IF Len(s) >= 3 * RiskRounds THEN "judge"
  ELSE IF Said(s) = "risky" THEN "safe" ELSE "risky"
MisnamedSafe(s) ==
  IF Len(s) >= 3 * RiskRounds THEN "judge"
  ELSE CASE Said(s) = "risky" -> "conservative"
         [] Said(s) = "safe"  -> "neutral"
         [] OTHER             -> "risky"

ShouldContinueDebate(s) ==
  IF Len(s) >= 2 * DebateRounds THEN "manager"
  ELSE IF Said(s) = "bull" THEN "bear" ELSE "bull"

ShouldContinueRisk(s) ==
  IF Len(s) >= 3 * RiskRounds THEN "judge"
  ELSE CASE Said(s) = "risky" -> "safe"
         [] Said(s) = "safe"  -> "neutral"
         [] OTHER             -> "risky"

Argue(speaker) ==
  /\ at = speaker
  /\ debate' = Append(debate, speaker)
  /\ at' = ShouldContinueDebate(debate')
  /\ UNCHANGED <<config, turn, messages, calls, report, risk, plan, decision>>

BullResearcher == Argue("bull")
BearResearcher == Argue("bear")

ResearchManager ==
  /\ at = "manager"
  /\ plan' = TRUE
  /\ at' = "trader"
  /\ UNCHANGED <<config, turn, messages, calls, report, debate, risk, decision>>

Trader ==
  /\ at = "trader"
  /\ messages' = Append(messages, Text)
  /\ at' = "risky"
  /\ UNCHANGED <<config, turn, calls, report, debate, risk, plan, decision>>

Discuss(speaker) ==
  /\ at = speaker
  /\ risk' = Append(risk, speaker)
  /\ at' = ShouldContinueRisk(risk')
  /\ UNCHANGED <<config, turn, messages, calls, report, debate, plan, decision>>

RiskyAnalyst == Discuss("risky")
SafeAnalyst == Discuss("safe")
NeutralAnalyst == Discuss("neutral")

(* Three attempts; an exception or an answer too short counts as none, and *)
(* after the third the judge decides "hold" by default.                    *)
RiskJudge ==
  /\ at = "judge"
  /\ decision' \in {"model", "default"}
  /\ at' = "end"
  /\ UNCHANGED <<config, turn, messages, calls, report, debate, risk, plan>>

(* A model call of an agent may raise, and so may the look-up of memories, *)
(* which the judge makes before its attempts; either ends the graph.       *)
ModelRaises ==
  /\ at \in {"analyst", "bull", "bear", "manager", "trader",
              "risky", "safe", "neutral", "judge"}
  /\ at' = "raised"
  /\ UNCHANGED <<config, turn, messages, calls, report, debate, risk, plan, decision>>

RunNode == \/ RunAnalyst \/ RunTools \/ ClearMessages
           \/ BullResearcher \/ BearResearcher \/ ResearchManager \/ Trader
           \/ RiskyAnalyst \/ SafeAnalyst \/ NeutralAnalyst \/ RiskJudge
           \/ ModelRaises

Next == RunNode /\ steps' = steps + 1

(* LangGraph runs the next node as soon as one has ended, and every model  *)
(* call is assumed to return or raise.                                     *)
Spec == Init /\ [][Next]_vars /\ WF_vars(Next)

-----------------------------------------------------------------------------
TypeOK ==
  /\ selected \in Selections /\ depth \in Depths /\ google \in BOOLEAN
  /\ at \in Places /\ turn \in DOMAIN selected
  /\ messages \in Seq(Messages)
  /\ calls \in [Analysts -> Nat] /\ report \in [Analysts -> Lengths]
  /\ debate \in Seq({"bull", "bear"}) /\ risk \in Seq({"risky", "safe", "neutral"})
  /\ plan \in BOOLEAN /\ decision \in {"none", "model", "default"}
  /\ steps \in Nat

(* Every request in the message list is followed by the results of all the *)
(* tools it asks for before a model sees the list again: chat interfaces   *)
(* reject a list that is not of this form.  Whichever way an analyst ended *)
(* - forced by the cap, failed after its request, finished with requests   *)
(* open - the next agent that reads the list finds it well formed.         *)
RequestsAnswered ==
  at \in {"analyst", "trader"} =>
    \A i \in DOMAIN messages : \A k \in 1..messages[i].asks :
      i + k <= Len(messages) /\ messages[i + k].by = "tool"

(* The caps hold: no analyst has more than three runs of its node, and the *)
(* fundamentals analyst, which counts tool results and not runs, makes one *)
(* request in its turn, for however many tools (the first cap of           *)
(* conditional_logic.py is 3, the other 1).  It never takes the results of *)
(* another analyst for its own: results it finds are what it asked for     *)
(* last.                                                                   *)
Requests(m) == {i \in DOMAIN m : m[i].asks > 0}
CapsRespected ==
  /\ \A a \in Analysts \ {"fundamentals"} : calls[a] <= 3
  /\ current = "fundamentals" => \A i, j \in Requests(messages) : i = j
  /\ at = "analyst" /\ HasToolResult(messages) => LastMessage(messages).by = "tool"

(* LangGraph raises when a run needs more nodes than its recursion limit;  *)
(* no selection of analysts and no depth reaches it.                       *)
WithinRecursionLimit == steps < RecursionLimit

(* A decision rests on a plan, on every selected analyst having had its    *)
(* turn, and on a debate and a discussion of the length the depth asks for.*)
DecisionIsInformed ==
  decision # "none" =>
    /\ turn = Len(selected) /\ plan
    /\ Len(debate) = 2 * DebateRounds /\ Len(risk) = 3 * RiskRounds

(* Every analysis ends, with a decision or an exception.                   *)
Ends == <>(at \in {"end", "raised"})

(* Both debates keep the order and the number of turns of a round table.   *)
Debate == INSTANCE RoundTable WITH
  Seats <- <<"bull", "bear">>, rounds <- DebateRounds, said <- debate, verdict <- plan
Risk == INSTANCE RoundTable WITH
  Seats <- <<"risky", "safe", "neutral">>, rounds <- RiskRounds, said <- risk,
  verdict <- (decision # "none")

DebateIsRoundTable == Debate!Spec
RiskIsRoundTable == Risk!Spec
=============================================================================
