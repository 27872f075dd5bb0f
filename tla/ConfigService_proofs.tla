------------------------ MODULE ConfigService_proofs ------------------------
(***************************************************************************)
(* For any clients, names and number of requests: no client leaves two      *)
(* configurations active, and as long as no changes overlap or break off    *)
(* the collection is one register.  What makes the second inductive is that *)
(* a client that is alone in its change stays the only one that changes     *)
(* anything, and that what it is about to save is its edit applied to what  *)
(* the register holds.                                                     *)
(***************************************************************************)
EXTENDS ConfigService, SequenceTheorems, WellFoundedInduction, TLAPS

Saving(c) == request[c].at \in {"insert", "insertDefault"}

\* A client alone in its change is the only one changing; alone when about to
\* insert, it has retired every document.
AloneIsAlone ==
  \A c \in Clients : Changing(c) /\ request[c].alone =>
    /\ \A other \in Clients : Changing(other) => other = c
    /\ Saving(c) => active = {}

Current == IF active = {} THEN DefaultConfig ELSE (CHOOSE d \in active : TRUE).config

\* What is saved is an accepted edit of the current configuration, or the
\* default one when there is none.
SavesAnEdit(c) ==
  /\ At(c, "retire") =>
       \E e \in Edits : Accepts(e, Current) /\ request[c].config = Apply(e, Current)
  /\ At(c, "prioritise") =>
       \A d \in active : d.id = request[c].doc =>
         \E e \in Edits : Accepts(e, d.config) /\ request[c].config = Apply(e, d.config)
  /\ At(c, "retireDefault") => active = {}
  /\ At(c, "created") => Current = DefaultConfig
  /\ Saving(c) => active = {}

Sound ==
  ~disturbed =>
    /\ \A c, other \in Clients : Changing(c) /\ Changing(other) => c = other
    /\ \A d, e \in active : d = e
    /\ \A c \in Clients : SavesAnEdit(c)

\* What is saved has a version that a save has counted; what is saved as the
\* default configuration is that.
Prepared ==
  \A c \in Clients :
    /\ Changing(c) => request[c].version \notin {0, 1}
    /\ request[c].at \in {"retireDefault", "insertDefault", "created"} =>
         request[c].config = DefaultConfig

IInv == TypeOK /\ Prepared /\ OneActiveEach /\ AloneIsAlone /\ Sound

-----------------------------------------------------------------------------

\* The first of some places is one of them.
LEMMA FirstIsThere ==
  ASSUME NEW places \in SUBSET Nat, places # {}
  PROVE  First(places) \in places
<1>1. \E i \in places : \A j \in places : i <= j
  <2> DEFINE R == OpToRel(<, Nat)
  <2>1. IsWellFoundedOn(R, Nat)
    BY NatLessThanWellFounded
  <2>2. \A i, j \in Nat : i < j => <<i, j>> \in R
    BY DEF OpToRel
  <2> HIDE DEF R
  <2>3. \E i \in places : \A j \in places : ~ (<<j, i>> \in R)
    BY <2>1, WFMin
  <2>4. PICK i \in places : \A j \in places : ~ (<<j, i>> \in R)
    BY <2>3
  <2>5. ASSUME NEW j \in places PROVE i <= j
    <3>1. i \in Nat /\ j \in Nat
      OBVIOUS
    <3>2. ~ (j < i)
      BY <3>1, <2>2, <2>4
    <3> QED
      BY <3>1, <3>2
  <2> QED
    BY <2>5
<1> QED
  BY <1>1 DEF First

\* What each edit names.
LEMMA EditFacts ==
  ASSUME NEW e \in Edits
  PROVE  /\ e.op \in {"putModel", "dropModel", "chooseModel"} => e.name \in Models
         /\ e.op \in {"addSource", "prioritise", "order"} =>
              e.name \in Sources /\ e.priority \in Priorities
         /\ e.op = "putSource" => e.name \in Sources /\ e.entry \in SourceEntry
         /\ e.op \in {"dropSource", "chooseSource"} => e.name \in Sources
         /\ e.op \in {"addDatabase", "putDatabase", "dropDatabase"} => e.name \in Databases
         /\ e.op = "changeSettings" => e.settings \in Settings
         /\ e.op = "import" => e.config \in FileConfigs
         /\ e.op \in {"read", "putModel", "dropModel", "chooseModel", "addSource", "putSource",
                      "prioritise", "order", "dropSource", "chooseSource", "addDatabase",
                      "putDatabase", "dropDatabase", "changeSettings", "import"}
<1>1. CASE e \in [op : {"read"}]
  BY <1>1
<1>2. CASE e \in [op : {"putModel", "dropModel", "chooseModel"}, name : Models]
  BY <1>2
<1>3. CASE e \in [op : {"addSource", "prioritise", "order"}, name : Sources,
                  priority : Priorities]
  BY <1>3
<1>8. CASE e \in [op : {"putSource"}, name : Sources, entry : SourceEntry]
  BY <1>8
<1>4. CASE e \in [op : {"dropSource", "chooseSource"}, name : Sources]
  BY <1>4
<1>5. CASE e \in [op : {"addDatabase", "putDatabase", "dropDatabase"}, name : Databases]
  BY <1>5
<1>6. CASE e \in [op : {"changeSettings"}, settings : Settings]
  BY <1>6
<1>7. CASE e \in [op : {"import"}, config : FileConfigs]
  BY <1>7
<1> QED
  BY <1>1, <1>2, <1>3, <1>4, <1>5, <1>6, <1>7, <1>8 DEF Edits

LEMMA FileType == FileConfigs \subseteq Config
<1>1. ASSUME NEW v \in Settings
      PROVE  [DefaultConfig EXCEPT !.models = {}, !.settings = v] \in Config
  BY ConfigAssumption DEF Config
<1> QED
  BY <1>1 DEF FileConfigs

LEMMA PriorityType ==
  ASSUME NEW list \in Seq(SourceEntry), NEW i, NEW p \in Priorities
  PROVE  [list EXCEPT ![i].priority = p] \in Seq(SourceEntry)
<1> DEFINE s == [list EXCEPT ![i].priority = p]
<1>1. ASSUME NEW j \in 1..Len(list) PROVE s[j] \in SourceEntry
  <2>1. list[j] \in SourceEntry
    BY ElementOfSeq
  <2>2. [list[j] EXCEPT !.priority = p] \in SourceEntry
    BY <2>1 DEF SourceEntry
  <2>3. CASE i = j
    BY <2>2, <2>3
  <2>4. CASE i # j
    BY <2>1, <2>4
  <2> QED
    BY <2>3, <2>4
<1>2. s = [j \in 1..Len(list) |-> s[j]]
  BY Zenon, LenProperties
<1> HIDE DEF s
<1>3. [j \in 1..Len(list) |-> s[j]] \in Seq(SourceEntry)
  BY <1>1, LenProperties
<1> QED
  BY <1>2, <1>3 DEF s

\* An accepted edit of a configuration is a configuration.
LEMMA ApplyType ==
  ASSUME NEW config \in Config, NEW e \in Edits, Accepts(e, config)
  PROVE  Apply(e, config) \in Config
<1> USE EditFacts
<1>0. config.sources \in Seq(SourceEntry) /\ config.databases \in [Databases -> Nat]
  BY DEF Config
<1>1. CASE e.op \in {"putModel", "dropModel", "chooseModel"}
  BY <1>1 DEF Apply, Config
<1>2. CASE e.op = "addSource"
  <2>1. [name |-> e.name, priority |-> e.priority] \in SourceEntry
    BY <1>2 DEF SourceEntry
  <2>2. Append(config.sources, [name |-> e.name, priority |-> e.priority]) \in Seq(SourceEntry)
    BY <1>0, <2>1
  <2> QED
    BY <1>2, <2>2 DEF Apply, AddSource, Config
<1>3. CASE e.op = "prioritise"
  <2> DEFINE i == First(Listed(config, e.name))
             s == [config.sources EXCEPT ![i].priority = e.priority]
  <2>1. e.priority \in Priorities
    BY <1>3
  <2>2. s \in Seq(SourceEntry)
    BY <1>0, <2>1, PriorityType
  <2>3. Apply(e, config) = [config EXCEPT !.sources = s]
    BY <1>3 DEF Apply, PrioritiseSource, Config
  <2> QED
    BY <2>2, <2>3 DEF Config
<1>10. CASE e.op = "putSource"
  <2> DEFINE i == First(Listed(config, e.name))
             s == [config.sources EXCEPT ![i] = e.entry]
  <2>1. e.entry \in SourceEntry
    BY <1>10
  <2>2. s \in Seq(SourceEntry)
    <3>1. \A j \in 1..Len(config.sources) : s[j] \in SourceEntry
      BY <1>0, <2>1, ElementOfSeq
    <3>2. s = [j \in 1..Len(config.sources) |-> s[j]]
      BY <1>0, Zenon, LenProperties
    <3> HIDE DEF s
    <3>3. [j \in 1..Len(config.sources) |-> s[j]] \in Seq(SourceEntry)
      BY <1>0, <3>1, LenProperties
    <3> QED
      BY <3>2, <3>3
  <2>3. Apply(e, config) = [config EXCEPT !.sources = s]
    BY <1>10 DEF Apply, PutSource, Config
  <2> QED
    BY <2>2, <2>3 DEF Config
<1>11. CASE e.op = "order"
  <2> DEFINE s == [i \in DOMAIN config.sources |->
                    IF i \in Listed(config, e.name)
                    THEN [config.sources[i] EXCEPT !.priority = e.priority]
                    ELSE config.sources[i]]
  <2>1. e.priority \in Priorities
    BY <1>11
  <2>2. s \in Seq(SourceEntry)
    <3>1. DOMAIN config.sources = 1..Len(config.sources) /\ Len(config.sources) \in Nat
      BY <1>0, LenProperties
    <3>2. ASSUME NEW j \in 1..Len(config.sources) PROVE s[j] \in SourceEntry
      <4>1. config.sources[j] \in SourceEntry
        BY <1>0, ElementOfSeq
      <4> QED
        BY <2>1, <3>1, <4>1 DEF SourceEntry
    <3>3. s = [j \in 1..Len(config.sources) |-> s[j]]
      BY <3>1
    <3> HIDE DEF s
    <3> QED
      BY <3>1, <3>2, <3>3
  <2>3. Apply(e, config) = [config EXCEPT !.sources = s]
    BY <1>11 DEF Apply, OrderSources, Config
  <2> QED
    BY <2>2, <2>3 DEF Config
<1>4. CASE e.op = "dropSource"
  <2> DEFINE i == First(Listed(config, e.name))
  <2>1. i \in Listed(config, e.name)
    <3>1. Listed(config, e.name) # {}
      BY <1>4 DEF Accepts
    <3>2. Listed(config, e.name) \in SUBSET Nat
      BY <1>0 DEF Listed
    <3> QED
      BY <3>1, <3>2, FirstIsThere
  <2>2. i \in 1..Len(config.sources)
    BY <1>0, <2>1 DEF Listed
  <2> HIDE DEF i
  <2>3. SubSeq(config.sources, 1, i - 1) \in Seq(SourceEntry)
    <3>1. \A j \in 1..(i - 1) : config.sources[j] \in SourceEntry
      BY <1>0, <2>2, ElementOfSeq
    <3> QED
      BY <2>2, <3>1, SubSeqProperties
  <2>4. SubSeq(config.sources, i + 1, Len(config.sources)) \in Seq(SourceEntry)
    <3>1. \A j \in (i + 1)..Len(config.sources) : config.sources[j] \in SourceEntry
      BY <1>0, <2>2, ElementOfSeq
    <3> QED
      BY <1>0, <2>2, <3>1, SubSeqProperties
  <2>5. RemoveAt(config.sources, i) \in Seq(SourceEntry)
    BY <2>3, <2>4, ConcatProperties DEF RemoveAt
  <2>6. Apply(e, config) = [config EXCEPT !.sources = RemoveAt(config.sources, i)]
    BY <1>4 DEF Apply, DropSource, Config, i
  <2> QED
    BY <2>5, <2>6 DEF Config
<1>5. CASE e.op = "chooseSource"
  BY <1>5 DEF Apply, Config
<1>6. CASE e.op \in {"addDatabase", "dropDatabase"}
  <2>1. /\ [config.databases EXCEPT ![e.name] = @ + 1] \in [Databases -> Nat]
        /\ [config.databases EXCEPT ![e.name] = 0] \in [Databases -> Nat]
    BY <1>0, <1>6
  <2> QED
    BY <1>6, <2>1 DEF Apply, AddDatabase, DropDatabase, Config
<1>7. CASE e.op = "changeSettings"
  BY <1>7 DEF Apply, Config
<1>8. CASE e.op = "import"
  BY <1>8, FileType DEF Apply
<1>9. CASE e.op \in {"read", "putDatabase"}
  BY <1>9 DEF Apply
<1> QED
  BY <1>1, <1>2, <1>3, <1>4, <1>5, <1>6, <1>7, <1>8, <1>9, <1>10, <1>11

LEMMA IdleType == Idle \in Request /\ Idle.at = "idle" /\ Idle.alone = FALSE
<1>1. [op |-> "read"] \in Edits
  BY DEF Edits
<1> QED
  BY <1>1, ConfigAssumption DEF Idle, Request, Places

\* What holds after a client has entered a change as request r.
Entered(c, r) ==
  /\ request'[c].at = r.at /\ request'[c].config = r.config
  /\ request'[c].doc = r.doc /\ request'[c].version = r.version
  /\ request'[c].edit = r.edit
  /\ \A other \in Clients \ {c} : /\ request'[other].at = request[other].at
                                    /\ request'[other].version = request[other].version
                                    /\ request'[other].config = request[other].config
  /\ \A other \in Clients : Changing(other)' /\ request'[other].alone =>
       other = c /\ \A third \in Clients : Changing(third) => third = c
  /\ ~disturbed' => ~disturbed /\ \A other \in Clients : Changing(other) => other = c

LEMMA EnterFacts ==
  ASSUME TypeOK, AloneIsAlone, NEW c \in Clients, NEW r \in Request, NEW sound \in BOOLEAN,
         Enter(c, r, sound)
  PROVE  /\ request' \in [Clients -> Request] /\ disturbed' \in BOOLEAN
         /\ Entered(c, r)
         /\ ~disturbed' => sound
<1> DEFINE others == {other \in Clients \ {c} : Changing(other)}
           alone == IF Changing(c) THEN request[c].alone ELSE others = {}
<1>1. /\ request' = [other \in Clients |->
            IF other = c THEN [r EXCEPT !.alone = alone]
                         ELSE [request[other] EXCEPT !.alone = FALSE]]
      /\ disturbed' = (disturbed \/ others # {} \/ ~sound)
  BY DEF Enter
<1>2. alone \in BOOLEAN
  <2>1. request[c].alone \in BOOLEAN
    BY DEF TypeOK, Request
  <2> QED
    BY <2>1
<1>3. [r EXCEPT !.alone = alone] \in Request
  BY <1>2 DEF Request
<1>4. ASSUME NEW other \in Clients
      PROVE  [request[other] EXCEPT !.alone = FALSE] \in Request
  BY DEF TypeOK, Request
<1>5. alone => others = {}
  BY DEF AloneIsAlone
<1>6. /\ request'[c] = [r EXCEPT !.alone = alone]
      /\ \A other \in Clients \ {c} : request'[other] = [request[other] EXCEPT !.alone = FALSE]
  BY <1>1
<1>7. request'[c].alone = alone
  BY <1>6 DEF Request
<1>8. ASSUME NEW other \in Clients \ {c} PROVE request'[other].alone = FALSE
  <2>1. request[other] \in Request
    BY DEF TypeOK
  <2> QED
    BY <1>6, <2>1 DEF Request
<1>9. /\ request'[c].at = r.at /\ request'[c].config = r.config
      /\ request'[c].doc = r.doc /\ request'[c].version = r.version
      /\ request'[c].edit = r.edit
  BY <1>6 DEF Request
<1>10. ASSUME NEW other \in Clients \ {c}
       PROVE  /\ request'[other].at = request[other].at
              /\ request'[other].version = request[other].version
              /\ request'[other].config = request[other].config
  <2>1. request[other] \in Request
    BY DEF TypeOK
  <2> QED
    BY <1>6, <2>1 DEF Request
<1>11. request' \in [Clients -> Request]
  BY <1>1, <1>3, <1>4
<1>12. disturbed' \in BOOLEAN
  BY <1>1
<1>13. ~disturbed' => ~disturbed /\ others = {} /\ sound
  BY <1>1
<1> HIDE DEF alone
<1> QED
  BY <1>5, <1>7, <1>8, <1>9, <1>10, <1>11, <1>12, <1>13 DEF Entered

\* A change that has been entered disturbs neither the documents nor the
\* clients that are on their own, and leaves one client changing if it is sound.
LEMMA EnterInv ==
  ASSUME IInv, NEW c \in Clients, NEW r \in Request, NEW sound \in BOOLEAN,
         Enter(c, r, sound), active' = active,
         r.at \in {"retire", "retireDefault", "prioritise"}, r.version \notin {0, 1},
         r.at = "retireDefault" => r.config = DefaultConfig
  PROVE  /\ request' \in [Clients -> Request] /\ disturbed' \in BOOLEAN
         /\ Prepared' /\ OneActiveEach' /\ AloneIsAlone'
         /\ sound /\ (~disturbed /\ (\A other \in Clients : Changing(other) => other = c)
                        => SavesAnEdit(c)') => Sound'
         /\ ~sound => Sound'
<1>1. /\ request' \in [Clients -> Request] /\ disturbed' \in BOOLEAN
      /\ Entered(c, r) /\ (~disturbed' => sound)
  BY EnterFacts DEF IInv
<1>2. request'[c].at \in {"retire", "retireDefault", "prioritise"}
  BY <1>1 DEF Entered
<1>3. OneActiveEach'
  <2>1. \A d \in active : d.owner \in Clients
    BY DEF IInv, TypeOK, Document
  <2> QED
    BY <1>1, <1>2, <2>1 DEF IInv, OneActiveEach, Entered
<1>4. AloneIsAlone'
  BY <1>1, <1>2 DEF AloneIsAlone, Entered, Changing, Saving
<1>5. ASSUME ~disturbed', ~disturbed /\ (\A other \in Clients : Changing(other) => other = c)
                            => SavesAnEdit(c)'
      PROVE  Sound'
  <2>1. ~disturbed /\ \A other \in Clients : Changing(other) => other = c
    BY <1>1, <1>5 DEF Entered
  <2>2. \A other \in Clients : Changing(other)' => other = c
    BY <1>1, <2>1 DEF Entered, Changing
  <2>3. \A other \in Clients \ {c} : SavesAnEdit(other)'
    BY <2>2 DEF SavesAnEdit, Changing, Saving, At
  <2>4. SavesAnEdit(c)'
    BY <1>5, <2>1
  <2>5. \A d, e \in active : d = e
    BY <2>1 DEF IInv, Sound
  <2> QED
    BY <2>2, <2>3, <2>4, <2>5 DEF Sound
<1>6. disturbed' => Sound'
  BY DEF Sound
<1>7. Prepared'
  <2>1. \A other \in Clients \ {c} : /\ request'[other].version = request[other].version
                                      /\ request'[other].config = request[other].config
    BY <1>1 DEF Entered
  <2> QED
    BY <1>1, <2>1 DEF IInv, Prepared, Entered, Changing
<1> QED
  BY <1>1, <1>3, <1>4, <1>5, <1>6, <1>7

\* A client that is not changing anything afterwards disturbs nothing.
LEMMA QuietInv ==
  ASSUME IInv, NEW c \in Clients, NEW r \in Request, r.at \in {"idle", "read"},
         request' = [request EXCEPT ![c] = r], active' = active, disturbed' = disturbed
  PROVE  /\ request' \in [Clients -> Request]
         /\ Prepared' /\ OneActiveEach' /\ AloneIsAlone' /\ Sound'
<1>1. request' \in [Clients -> Request]
  BY DEF IInv, TypeOK
<1>2. request'[c] = r /\ \A other \in Clients \ {c} : request'[other] = request[other]
  BY DEF IInv, TypeOK
<1>3. OneActiveEach'
  <2>1. \A d \in active : d.owner \in Clients
    BY DEF IInv, TypeOK, Document
  <2> QED
    BY <1>2, <2>1 DEF IInv, OneActiveEach
<1>4. AloneIsAlone'
  BY <1>2 DEF IInv, AloneIsAlone, Changing, Saving
<1>5. Sound'
  <2> SUFFICES ASSUME ~disturbed' PROVE Sound'
    BY DEF Sound
  <2>1. /\ \A one, other \in Clients : Changing(one) /\ Changing(other) => one = other
        /\ \A d, e \in active : d = e
        /\ \A other \in Clients : SavesAnEdit(other)
    BY DEF IInv, Sound
  <2>2. SavesAnEdit(c)'
    BY <1>2 DEF SavesAnEdit, Saving, At
  <2>3. \A other \in Clients \ {c} : SavesAnEdit(other)'
    BY <1>2, <2>1 DEF SavesAnEdit, Saving, At, Current
  <2>4. \A one, other \in Clients : Changing(one)' /\ Changing(other)' => one = other
    BY <1>2, <2>1 DEF Changing
  <2> QED
    BY <2>1, <2>2, <2>3, <2>4 DEF Sound
<1>6. Prepared'
  BY <1>2 DEF IInv, Prepared, Changing
<1> QED
  BY <1>1, <1>3, <1>4, <1>5, <1>6

\* The configuration an edit starts from is the current one, if it is sound.
LEMMA EditInv ==
  ASSUME IInv, NEW c \in Clients, NEW config \in Config, NEW version \in Nat \ {0},
         NEW sound \in BOOLEAN, Edit(c, config, version, sound), active' = active,
         sound /\ ~disturbed /\ (\A other \in Clients : Changing(other) => other = c)
           => Current = config
  PROVE  /\ request' \in [Clients -> Request] /\ disturbed' \in BOOLEAN
         /\ Prepared' /\ OneActiveEach' /\ AloneIsAlone' /\ Sound'
<1> DEFINE e == request[c].edit
           r == [Idle EXCEPT !.at = "retire", !.version = version + 1,
                             !.config = Apply(e, config)]
<1>1. e \in Edits
  BY DEF IInv, TypeOK, Request
<1>2. CASE Accepts(e, config)
  <2>1. Enter(c, r, sound)
    BY <1>2 DEF Edit
  <2>2. Apply(e, config) \in Config
    BY <1>1, <1>2, ApplyType
  <2>3. /\ r \in Request /\ r.at = "retire" /\ r.config = Apply(e, config)
        /\ r.version \notin {0, 1}
    <3>1. version + 1 \in Nat /\ version + 1 \notin {0, 1} /\ "retire" \in Places
      BY DEF Places
    <3>2. r = [Idle EXCEPT !.at = "retire", !.version = version + 1,
                           !.config = Apply(e, config)]
      OBVIOUS
    <3> HIDE DEF e, r
    <3>3. /\ r \in Request /\ r.at = "retire" /\ r.config = Apply(e, config)
          /\ r.version = version + 1
      BY <2>2, <3>1, <3>2, IdleType DEF Request
    <3> QED
      BY <3>1, <3>3
  <2> HIDE DEF r, e
  <2>4. ASSUME sound, ~disturbed, \A other \in Clients : Changing(other) => other = c
        PROVE  SavesAnEdit(c)'
    <3>1. request'[c].at = "retire" /\ request'[c].config = Apply(e, config)
      BY <2>1, <2>3, EnterFacts DEF Entered, IInv
    <3>2. Current' = config
      BY <2>4 DEF Current
    <3> QED
      BY <1>1, <1>2, <3>1, <3>2 DEF SavesAnEdit, Saving, At
  <2> QED
    BY <2>1, <2>3, <2>4, EnterInv
<1>3. CASE ~Accepts(e, config)
  <2>1. request' = [request EXCEPT ![c] = Idle] /\ disturbed' = disturbed
    BY <1>3 DEF Edit, Leave, GoOn
  <2>2. disturbed' \in BOOLEAN
    BY <2>1 DEF IInv, TypeOK
  <2> QED
    BY <2>1, <2>2, IdleType, QuietInv
<1> QED
  BY <1>2, <1>3

LEMMA InitInv == Init => IInv
<1> SUFFICES ASSUME Init PROVE IInv
  OBVIOUS
<1>1. TypeOK
  <2>1. disturbed \in BOOLEAN
    BY DEF Init
  <2>2. request \in [Clients -> Request]
    BY IdleType DEF Init
  <2>3. active \subseteq Document /\ nextId \in Nat /\ started \in 0..MaxRequests
    BY ConfigAssumption DEF Init
  <2> QED
    BY <2>1, <2>2, <2>3 DEF TypeOK
<1>2. \A c \in Clients : request[c].at = "idle" /\ request[c].alone = FALSE
  BY IdleType DEF Init
<1> QED
  BY <1>1, <1>2 DEF Init, IInv, Prepared, OneActiveEach, AloneIsAlone, Sound, SavesAnEdit,
                    Changing, Saving, At

LEMMA BeginInv == ASSUME IInv, NEW c \in Clients, Begin(c) PROVE IInv'
<1>1. PICK e \in Edits : IF e.op = "import" THEN ImportConfig(c, e)
                         ELSE GoOn(c, [Idle EXCEPT !.at = "read", !.edit = e])
  BY DEF Begin
<1>2. /\ active' = active /\ nextId' = nextId
      /\ started' \in 0..MaxRequests
  BY ConfigAssumption DEF Begin, IInv, TypeOK
<1>3. CASE e.op = "import"
  <2> DEFINE r == [Idle EXCEPT !.at = "retire", !.config = e.config, !.version = 2]
  <2>1. e.config \in Config
    BY <1>3, EditFacts, FileType
  <2>2. /\ r \in Request /\ r.at = "retire" /\ r.config = e.config
        /\ r.version \notin {0, 1}
    <3>1. r = [Idle EXCEPT !.at = "retire", !.version = 2, !.config = e.config]
      BY IdleType DEF Request
    <3>2. 2 \in Nat /\ 2 \notin {0, 1} /\ "retire" \in Places
      BY DEF Places
    <3> HIDE DEF r
    <3>3. r \in Request /\ r.at = "retire" /\ r.config = e.config /\ r.version = 2
      BY <2>1, <3>1, <3>2, IdleType DEF Request
    <3> QED
      BY <3>2, <3>3
  <2>3. Enter(c, r, TRUE)
    BY <1>1, <1>3 DEF ImportConfig
  <2> HIDE DEF r
  <2>4. SavesAnEdit(c)'
    <3>1. request'[c].at = "retire" /\ request'[c].config = e.config
      BY <2>2, <2>3, EnterFacts DEF Entered, IInv
    <3>2. Accepts(e, Current') /\ Apply(e, Current') = e.config
      BY <1>3 DEF Accepts, Apply, InPlace
    <3> QED
      BY <3>1, <3>2 DEF SavesAnEdit, Saving, At
  <2>5. /\ request' \in [Clients -> Request] /\ disturbed' \in BOOLEAN
        /\ Prepared' /\ OneActiveEach' /\ AloneIsAlone' /\ Sound'
    BY <1>2, <2>2, <2>3, <2>4, EnterInv
  <2> QED
    BY <1>2, <2>5 DEF IInv, TypeOK
<1>4. CASE e.op # "import"
  <2> DEFINE r == [Idle EXCEPT !.at = "read", !.edit = e]
  <2>1. r \in Request /\ r.at = "read"
    BY IdleType DEF Request, Places
  <2>2. request' = [request EXCEPT ![c] = r] /\ disturbed' = disturbed
    BY <1>1, <1>4 DEF GoOn
  <2> HIDE DEF r
  <2> QED
    BY <1>2, <2>1, <2>2, QuietInv DEF IInv, TypeOK
<1> QED
  BY <1>3, <1>4

\* The newest document, when the collection is sound, is the only one.
LEMMA NewestFacts ==
  ASSUME IInv, NEW d \in Newest
  PROVE  /\ d \in active /\ d.config \in Config /\ d.version \in Nat \ {0} /\ d.id \in Nat
         /\ ~disturbed => Current = d.config /\ \A other \in active : other = d
<1>1. d \in active /\ d \in Document
  BY DEF Newest, IInv, TypeOK
<1>2. ASSUME ~disturbed PROVE Current = d.config /\ \A other \in active : other = d
  <2>1. \A other \in active : other = d
    BY <1>1, <1>2 DEF IInv, Sound
  <2>2. (CHOOSE other \in active : TRUE) = d
    BY <1>1, <2>1
  <2> QED
    BY <1>1, <2>1, <2>2 DEF Current
<1> QED
  BY <1>1, <1>2 DEF Document

LEMMA GetInv == ASSUME IInv, NEW c \in Clients, GetSystemConfig(c) PROVE IInv'
<1>1. active' = active /\ nextId' = nextId /\ started' = started
  BY DEF GetSystemConfig
<1>2. ASSUME NEW d \in Newest, Edit(c, d.config, d.version, TRUE) PROVE IInv'
  <2>1. d.config \in Config /\ d.version \in Nat \ {0} /\ (~disturbed => Current = d.config)
    BY <1>2, NewestFacts
  <2>2. /\ request' \in [Clients -> Request] /\ disturbed' \in BOOLEAN
        /\ Prepared' /\ OneActiveEach' /\ AloneIsAlone' /\ Sound'
    BY <1>1, <1>2, <2>1, EditInv
  <2> QED
    BY <1>1, <2>2 DEF IInv, TypeOK
<1> DEFINE r == [request[c] EXCEPT !.at = "retireDefault", !.version = 2,
                                   !.config = DefaultConfig]
<1>3. ASSUME active = {}, Enter(c, r, TRUE) PROVE IInv'
  <2>1. /\ r \in Request /\ r.at = "retireDefault" /\ r.config = DefaultConfig
        /\ r.version \notin {0, 1}
    <3>1. r = [request[c] EXCEPT !.at = "retireDefault", !.version = 2,
                                 !.config = DefaultConfig]
      OBVIOUS
    <3>2. 2 \in Nat /\ 2 \notin {0, 1} /\ "retireDefault" \in Places /\ request[c] \in Request
      BY DEF Places, IInv, TypeOK
    <3> HIDE DEF r
    <3>3. /\ r \in Request /\ r.at = "retireDefault" /\ r.config = DefaultConfig
          /\ r.version = 2
      BY <3>1, <3>2, ConfigAssumption DEF Request
    <3> QED
      BY <3>2, <3>3
  <2> HIDE DEF r
  <2>2. SavesAnEdit(c)'
    <3>1. request'[c].at = "retireDefault" /\ request'[c].config = DefaultConfig
      BY <1>3, <2>1, EnterFacts DEF Entered, IInv
    <3> QED
      BY <1>1, <1>3, <3>1 DEF SavesAnEdit, Saving, At
  <2>3. /\ request' \in [Clients -> Request] /\ disturbed' \in BOOLEAN
        /\ Prepared' /\ OneActiveEach' /\ AloneIsAlone' /\ Sound'
    BY <1>1, <1>3, <2>1, <2>2, EnterInv
  <2> QED
    BY <1>1, <2>3 DEF IInv, TypeOK
<1> QED
  BY <1>2, <1>3 DEF GetSystemConfig

LEMMA FallBackInv == ASSUME IInv, NEW c \in Clients, FallBack(c) PROVE IInv'
<1>1. active' = active /\ nextId' = nextId /\ started' = started
  BY DEF FallBack
<1>2. PICK config \in FileConfigs : Edit(c, config, 1, FALSE)
  BY DEF FallBack
<1>3. config \in Config
  BY FileType
<1>4. FALSE \in BOOLEAN /\ 1 \in Nat \ {0}
  OBVIOUS
<1>5. /\ request' \in [Clients -> Request] /\ disturbed' \in BOOLEAN
      /\ Prepared' /\ OneActiveEach' /\ AloneIsAlone' /\ Sound'
  BY Zenon, <1>1, <1>2, <1>3, <1>4, EditInv
<1> QED
  BY <1>1, <1>5 DEF IInv, TypeOK

LEMMA CreatedInv == ASSUME IInv, NEW c \in Clients, Created(c) PROVE IInv'
<1>1. active' = active /\ nextId' = nextId /\ started' = started
  BY DEF Created
<1>2. /\ request[c].config \in Config /\ request[c].version \in Nat \ {0}
      /\ Edit(c, request[c].config, request[c].version, TRUE)
  <2>1. request[c].config \in Config /\ request[c].version \in Nat
    BY DEF IInv, TypeOK, Request
  <2>2. request[c].version # 0
    BY DEF Created, At, IInv, Prepared, Changing
  <2>3. Edit(c, request[c].config, request[c].version, TRUE)
    BY DEF Created
  <2> QED
    BY <2>1, <2>2, <2>3
<1>3. ~disturbed => Current = request[c].config
  BY DEF IInv, Sound, SavesAnEdit, Created, At, Prepared
<1>4. /\ request' \in [Clients -> Request] /\ disturbed' \in BOOLEAN
      /\ Prepared' /\ OneActiveEach' /\ AloneIsAlone' /\ Sound'
  BY <1>1, <1>2, <1>3, EditInv
<1> QED
  BY <1>1, <1>4 DEF IInv, TypeOK

LEMMA RetireInv == ASSUME IInv, NEW c \in Clients, Retire(c) PROVE IInv'
<1> DEFINE place == IF At(c, "retire") THEN "insert" ELSE "insertDefault"
           r == [request[c] EXCEPT !.at = place]
<1>1. /\ request[c].at \in {"retire", "retireDefault"} /\ active' = {}
      /\ request' = [request EXCEPT ![c] = r]
      /\ UNCHANGED <<disturbed, nextId, started>>
  BY DEF Retire, GoOn
<1>2. request[c] \in Request
  BY DEF IInv, TypeOK
<1>3. /\ r \in Request /\ r.at = place /\ r.config = request[c].config
      /\ r.version = request[c].version /\ r.alone = request[c].alone
  BY <1>2 DEF Request, Places
<1>4. /\ place = "insert" \/ (place = "insertDefault" /\ At(c, "retireDefault"))
  BY <1>1 DEF At
<1> HIDE DEF r, place
<1>5. request'[c] = r /\ \A other \in Clients \ {c} : request'[other] = request[other]
  BY <1>1 DEF IInv, TypeOK
<1>6. TypeOK'
  <2>1. request' \in [Clients -> Request]
    BY <1>1, <1>3 DEF IInv, TypeOK
  <2> QED
    BY <1>1, <2>1 DEF IInv, TypeOK
<1>7. Changing(c) /\ \A other \in Clients : Changing(other)' <=> Changing(other)
  BY <1>1, <1>3, <1>4, <1>5 DEF Changing, At
<1>8. Prepared'
  BY <1>1, <1>3, <1>4, <1>5, <1>7 DEF IInv, Prepared, At
<1>9. OneActiveEach'
  BY <1>1 DEF OneActiveEach
<1>10. AloneIsAlone'
  BY <1>1, <1>3, <1>5, <1>7 DEF IInv, AloneIsAlone
<1>11. Sound'
  <2> SUFFICES ASSUME ~disturbed' PROVE Sound'
    BY DEF Sound
  <2>1. /\ \A one, other \in Clients : Changing(one) /\ Changing(other) => one = other
        /\ SavesAnEdit(c)
    BY <1>1 DEF IInv, Sound
  <2>2. SavesAnEdit(c)'
    BY <1>1, <1>3, <1>4, <1>5, <2>1 DEF SavesAnEdit, Saving, At
  <2>3. \A other \in Clients \ {c} : ~Changing(other)'
    BY <1>7, <2>1
  <2>4. \A other \in Clients \ {c} : SavesAnEdit(other)'
    BY <2>3 DEF SavesAnEdit, Changing, Saving, At
  <2> QED
    BY <1>1, <1>7, <2>1, <2>2, <2>4 DEF Sound
<1> QED
  BY <1>6, <1>8, <1>9, <1>10, <1>11 DEF IInv

LEMMA InsertInv == ASSUME IInv, NEW c \in Clients, Insert(c) PROVE IInv'
<1> DEFINE new == [id |-> nextId, version |-> request[c].version,
                   config |-> request[c].config, owner |-> c]
           r == IF At(c, "insert") THEN Idle ELSE [request[c] EXCEPT !.at = "created"]
<1>1. /\ Saving(c) /\ active' = active \cup {new} /\ nextId' = nextId + 1
      /\ request' = [request EXCEPT ![c] = r]
      /\ disturbed' = (disturbed /\ ~request[c].alone) /\ started' = started
  BY DEF Insert, Saving
<1>2. request[c] \in Request
  BY DEF IInv, TypeOK
<1>3. /\ r \in Request
      /\ r.at = "idle" \/ /\ r.at = "created" /\ At(c, "insertDefault")
                          /\ r.config = request[c].config
                          /\ r.version = request[c].version
                          /\ r.alone = request[c].alone
  BY <1>1, <1>2, IdleType DEF Request, Places, At, Saving
<1>4. Changing(c)
  BY <1>1 DEF Changing, Saving
<1>5. new \in Document /\ new.owner = c /\ new.config = request[c].config
  <2>1. request[c].version \notin {0, 1}
    BY <1>4 DEF IInv, Prepared
  <2>2. request[c].version \in Nat \ {0, 1} /\ request[c].config \in Config /\ nextId \in Nat
    BY <1>2, <2>1 DEF Request, IInv, TypeOK
  <2> QED
    BY <2>2 DEF Document
<1> HIDE DEF r, new
<1>6. request'[c] = r /\ \A other \in Clients \ {c} : request'[other] = request[other]
  BY <1>1 DEF IInv, TypeOK
<1>7. TypeOK'
  <2>1. request' \in [Clients -> Request] /\ active' \subseteq Document
    BY <1>1, <1>3, <1>5 DEF IInv, TypeOK
  <2>2. disturbed' \in BOOLEAN
    BY <1>1
  <2>3. nextId' \in Nat /\ started' \in 0..MaxRequests
    BY <1>1 DEF IInv, TypeOK
  <2> QED
    BY <2>1, <2>2, <2>3 DEF TypeOK
<1>8. Prepared'
  BY <1>3, <1>4, <1>6 DEF IInv, Prepared, Changing, At
<1>9. OneActiveEach'
  <2>1. \A d \in active : d.owner # c /\ d.owner \in Clients
    BY <1>1 DEF IInv, OneActiveEach, Saving, TypeOK, Document
  <2>2. ~ (r.at \in {"insert", "insertDefault"})
    BY <1>3
  <2> QED
    BY <1>1, <1>5, <1>6, <2>1, <2>2 DEF IInv, OneActiveEach
<1>10. ~Saving(c)' /\ \A other \in Clients : Changing(other)' => Changing(other)
  BY <1>3, <1>4, <1>6 DEF Saving, Changing
<1>11. AloneIsAlone'
  BY <1>3, <1>4, <1>6, <1>10 DEF IInv, AloneIsAlone, Changing
<1>12. Sound'
  <2> SUFFICES ASSUME ~disturbed' PROVE Sound'
    BY DEF Sound
  <2>1. /\ \A other \in Clients : Changing(other) => other = c
        /\ active = {}
    <3>1. CASE disturbed
      BY <1>1, <1>4, <3>1 DEF IInv, AloneIsAlone
    <3>2. CASE ~disturbed
      BY <1>1, <1>4, <3>2 DEF IInv, Sound, SavesAnEdit
    <3> QED
      BY <3>1, <3>2
  <2>2. active' = {new} /\ Current' = request[c].config
    BY <1>1, <1>5, <2>1 DEF Current
  <2>3. SavesAnEdit(c)'
    <3>1. CASE r.at = "idle"
      BY <1>6, <3>1 DEF SavesAnEdit, Saving, At
    <3>2. CASE r.at = "created"
      BY <1>3, <1>6, <2>2, <3>2 DEF SavesAnEdit, Saving, At, IInv, Prepared
    <3> QED
      BY <1>3, <3>1, <3>2
  <2>4. \A other \in Clients \ {c} : SavesAnEdit(other)'
    BY <1>10, <2>1 DEF SavesAnEdit, Changing, Saving, At
  <2> QED
    BY <1>10, <2>1, <2>2, <2>3, <2>4 DEF Sound
<1> QED
  BY <1>7, <1>8, <1>9, <1>11, <1>12 DEF IInv

LEMMA FindInv == ASSUME IInv, NEW c \in Clients, FindPrioritised(c) PROVE IInv'
<1>1. active' = active /\ nextId' = nextId /\ started' = started
  BY DEF FindPrioritised
<1>2. ASSUME Leave(c) PROVE IInv'
  <2>1. request' = [request EXCEPT ![c] = Idle] /\ disturbed' = disturbed
    BY <1>2 DEF Leave, GoOn
  <2> QED
    BY <1>1, <2>1, IdleType, QuietInv DEF IInv, TypeOK
<1>3. ASSUME NEW d \in Newest, Accepts(request[c].edit, d.config),
             Enter(c, [Idle EXCEPT !.at = "prioritise", !.doc = d.id,
                                   !.version = d.version + 1,
                                   !.config = Apply(request[c].edit, d.config)], TRUE)
      PROVE  IInv'
  <2> DEFINE e == request[c].edit
             config == Apply(e, d.config)
             version == d.version + 1
             r == [Idle EXCEPT !.at = "prioritise", !.doc = d.id, !.version = version,
                               !.config = config]
  <2>1. e \in Edits
    BY DEF IInv, TypeOK, Request
  <2>2. config \in Config
    BY <1>3, <2>1, NewestFacts, ApplyType
  <2>3. version \in Nat /\ version \notin {0, 1} /\ d.id \in Nat /\ "prioritise" \in Places
    BY <1>3, NewestFacts DEF Places
  <2> HIDE DEF config, version
  <2>4. /\ r \in Request /\ r.at = "prioritise" /\ r.doc = d.id /\ r.config = config
        /\ r.version = version
    BY <2>2, <2>3, IdleType DEF Request
  <2>5. Enter(c, r, TRUE)
    BY <1>3 DEF config, version
  <2> HIDE DEF r, e
  <2>6. ASSUME ~disturbed PROVE SavesAnEdit(c)'
    <3>1. request'[c].at = "prioritise" /\ request'[c].doc = d.id /\ request'[c].config = config
      BY <2>4, <2>5, EnterFacts DEF Entered, IInv
    <3>2. \A other \in active' : Accepts(e, other.config) /\ config = Apply(e, other.config)
      BY <1>1, <1>3, <2>6, NewestFacts DEF config, e
    <3> QED
      BY <2>1, <3>1, <3>2 DEF SavesAnEdit, Saving, At
  <2>7. r.version \notin {0, 1} /\ r.at # "retireDefault"
    BY <2>3, <2>4
  <2>8. /\ request' \in [Clients -> Request] /\ disturbed' \in BOOLEAN
        /\ Prepared' /\ OneActiveEach' /\ AloneIsAlone' /\ Sound'
    BY <1>1, <2>4, <2>5, <2>6, <2>7, EnterInv
  <2> QED
    BY <1>1, <2>8 DEF IInv, TypeOK
<1> QED
  BY <1>2, <1>3 DEF FindPrioritised

LEMMA PrioritiseInv == ASSUME IInv, NEW c \in Clients, Prioritise(c) PROVE IInv'
<1> DEFINE Written(d) == IF d.id = request[c].doc
                         THEN [d EXCEPT !.config = request[c].config,
                                        !.version = request[c].version]
                         ELSE d
<1>1. /\ active' = {Written(d) : d \in active} /\ At(c, "prioritise")
      /\ request' = [request EXCEPT ![c] = Idle] /\ disturbed' = disturbed
      /\ UNCHANGED <<nextId, started>>
  BY DEF Prioritise, Leave, GoOn
<1>2. Changing(c)
  BY <1>1 DEF Changing, At
<1>3. ASSUME NEW d \in active PROVE Written(d) \in Document /\ Written(d).owner = d.owner
  <2>1. d \in Document
    BY DEF IInv, TypeOK
  <2>2. request[c].version \in Nat \ {0, 1} /\ request[c].config \in Config
    BY <1>2 DEF IInv, TypeOK, Prepared, Request
  <2> QED
    BY <2>1, <2>2 DEF Document
<1> HIDE DEF Written
<1>4. request'[c] = Idle /\ \A other \in Clients \ {c} : request'[other] = request[other]
  BY <1>1 DEF IInv, TypeOK
<1>5. TypeOK'
  <2>1. request' \in [Clients -> Request] /\ active' \subseteq Document
    BY <1>1, <1>3, IdleType DEF IInv, TypeOK
  <2> QED
    BY <1>1, <2>1 DEF IInv, TypeOK
<1>6. Idle.at = "idle"
  BY IdleType
<1>7. Prepared'
  BY <1>4, <1>6 DEF IInv, Prepared, Changing
<1>8. OneActiveEach'
  <2>1. \A d \in active : d.owner \in Clients
    BY DEF IInv, TypeOK, Document
  <2> QED
    BY <1>1, <1>3, <1>4, <1>6, <2>1 DEF IInv, OneActiveEach
<1>9. /\ ~Changing(c)'
      /\ \A other \in Clients : Changing(other)' => Changing(other) /\ other # c
  BY <1>4, <1>6 DEF Changing
<1>10. AloneIsAlone'
  BY <1>2, <1>4, <1>9 DEF IInv, AloneIsAlone
<1>11. Sound'
  <2> SUFFICES ASSUME ~disturbed' PROVE Sound'
    BY DEF Sound
  <2>1. /\ \A other \in Clients : Changing(other) => other = c
        /\ \A d, e \in active : d = e
    BY <1>1, <1>2 DEF IInv, Sound
  <2>2. \A other \in Clients : ~Changing(other)'
    BY <1>9, <2>1
  <2>3. \A other \in Clients : SavesAnEdit(other)'
    BY <2>2 DEF SavesAnEdit, Changing, Saving, At
  <2>4. \A d, e \in active' : d = e
    BY <1>1, <2>1
  <2> QED
    BY <2>2, <2>3, <2>4 DEF Sound
<1> QED
  BY <1>5, <1>7, <1>8, <1>10, <1>11 DEF IInv

LEMMA FailInv == ASSUME IInv, NEW c \in Clients, Fail(c) PROVE IInv'
<1>1. /\ active' = active /\ nextId' = nextId /\ started' = started
      /\ disturbed' = (disturbed \/ Saving(c))
  BY DEF Fail, Saving
<1>2. PICK r \in Request :
        /\ request' = [request EXCEPT ![c] = r]
        /\ r.at = "idle" \/ /\ r.at = "created" /\ r.config = request[c].config
                            /\ request[c].at \in {"retireDefault", "insertDefault"}
                            /\ r.version = request[c].version /\ r.alone = request[c].alone
  <2>1. CASE request' = [request EXCEPT ![c] = Idle]
    BY <2>1, IdleType
  <2>2. CASE /\ request[c].at \in {"retireDefault", "insertDefault"}
             /\ request' = [request EXCEPT ![c].at = "created"]
    <3> DEFINE r == [request[c] EXCEPT !.at = "created"]
    <3>1. request[c] \in Request /\ "created" \in Places
      BY DEF IInv, TypeOK, Places
    <3>2. /\ r \in Request /\ r.at = "created" /\ r.config = request[c].config
          /\ r.version = request[c].version /\ r.alone = request[c].alone
      BY <3>1 DEF Request
    <3>3. request' = [request EXCEPT ![c] = r]
      BY <2>2
    <3> QED
      BY <2>2, <3>2, <3>3
  <2> QED
    BY <2>1, <2>2 DEF Fail
<1>3. request'[c] = r /\ \A other \in Clients \ {c} : request'[other] = request[other]
  BY <1>2 DEF IInv, TypeOK
<1>4. TypeOK'
  <2>1. request' \in [Clients -> Request]
    BY <1>2 DEF IInv, TypeOK
  <2>2. disturbed' \in BOOLEAN
    BY <1>1 DEF IInv, TypeOK
  <2> QED
    BY <1>1, <2>1, <2>2 DEF IInv, TypeOK
<1>5. Prepared'
  BY <1>2, <1>3 DEF IInv, Prepared, Changing
<1>6. OneActiveEach'
  <2>1. \A d \in active : d.owner \in Clients
    BY DEF IInv, TypeOK, Document
  <2> QED
    BY <1>1, <1>2, <1>3, <2>1 DEF IInv, OneActiveEach
<1>7. /\ ~Saving(c)'
      /\ \A other \in Clients : Changing(other)' => Changing(other)
  BY <1>2, <1>3 DEF Changing, Saving
<1>8. AloneIsAlone'
  BY <1>1, <1>2, <1>3, <1>7 DEF IInv, AloneIsAlone, Changing, Saving
<1>9. Sound'
  <2> SUFFICES ASSUME ~disturbed' PROVE Sound'
    BY DEF Sound
  <2>1. ~disturbed /\ ~Saving(c)
    BY <1>1
  <2>2. /\ \A one, other \in Clients : Changing(one) /\ Changing(other) => one = other
        /\ \A d, e \in active : d = e
        /\ \A other \in Clients : SavesAnEdit(other)
    BY <2>1 DEF IInv, Sound
  <2>3. SavesAnEdit(c)'
    <3>1. CASE r.at = "idle"
      BY <1>3, <3>1 DEF SavesAnEdit, Saving, At
    <3>2. CASE r.at # "idle"
      <4>1. r.at = "created" /\ At(c, "retireDefault")
        BY <1>2, <2>1, <3>2 DEF Saving, At
      <4>2. Current' = DefaultConfig
        BY <1>1, <2>2, <4>1 DEF SavesAnEdit, Current
      <4> QED
        BY <1>3, <4>1, <4>2 DEF SavesAnEdit, Saving, At
    <3> QED
      BY <3>1, <3>2
  <2>4. \A other \in Clients \ {c} : SavesAnEdit(other)'
    BY <1>1, <1>3, <2>2 DEF SavesAnEdit, Saving, At, Current
  <2> QED
    BY <1>1, <1>7, <2>2, <2>3, <2>4 DEF Sound
<1> QED
  BY <1>4, <1>5, <1>6, <1>8, <1>9 DEF IInv
-----------------------------------------------------------------------------
LEMMA InductiveStep == IInv /\ [Next]_vars => IInv'
<1> SUFFICES ASSUME IInv, [Next]_vars PROVE IInv'
  OBVIOUS
<1>1. ASSUME NEW c \in Clients, Serve(c) PROVE IInv'
  BY <1>1, BeginInv, GetInv, FallBackInv, CreatedInv, RetireInv, InsertInv, FindInv,
     PrioritiseInv, FailInv DEF Serve
<1>2. CASE UNCHANGED vars
  BY <1>2 DEF vars, IInv, TypeOK, Prepared, OneActiveEach, AloneIsAlone, Sound, SavesAnEdit,
              Current, Changing, Saving, At
<1> QED
  BY <1>1, <1>2 DEF Next

\* The inductive invariant holds in every reachable state.
THEOREM Inductive == Spec => []IInv
BY InitInv, InductiveStep, PTL DEF Spec

\* Every document and every request is well-formed: an accepted edit of a
\* configuration is a configuration.
THEOREM TypeCorrect == Spec => []TypeOK
<1>1. IInv => TypeOK
  BY DEF IInv
<1> QED
  BY <1>1, Inductive, PTL

\* However many clients save at once, none of them leaves two configurations
\* active.
THEOREM OneActive == Spec => []OneActiveEach
<1>1. IInv => OneActiveEach
  BY DEF IInv
<1> QED
  BY <1>1, Inductive, PTL
-----------------------------------------------------------------------------
\* What the register holds, while nothing disturbs it.
Holds ==
  /\ \A c \in Clients : Saving(c) => value = request[c].config
  /\ (\A c \in Clients : ~Saving(c)) /\ active = {} => value = Unset
  /\ (\A c \in Clients : ~Saving(c)) =>
       \A d \in active : value = d.config /\ Current = d.config /\ d.config \in Config

LEMMA HoldsWhenSound == IInv /\ ~disturbed => Holds
<1> SUFFICES ASSUME IInv, ~disturbed PROVE Holds
  OBVIOUS
<1>1. /\ \A c, other \in Clients : Changing(c) /\ Changing(other) => c = other
      /\ \A d, e \in active : d = e
  BY DEF IInv, Sound
<1>2. ASSUME NEW c \in Clients, Saving(c) PROVE value = request[c].config
  <2>1. \A other \in Clients : Saving(other) => other = c
    BY <1>1, <1>2 DEF Saving, Changing
  <2>2. inserting = {c}
    BY <1>2, <2>1 DEF inserting, Saving
  <2>3. (CHOOSE other \in inserting : TRUE) = c
    BY <2>2
  <2> QED
    BY <2>2, <2>3 DEF value
<1>3. ASSUME \A c \in Clients : ~Saving(c) PROVE inserting = {}
  BY <1>3 DEF inserting, Saving
<1>4. ASSUME \A c \in Clients : ~Saving(c), NEW d \in active
      PROVE  value = d.config /\ Current = d.config /\ d.config \in Config
  <2>1. d \in Document
    BY DEF IInv, TypeOK
  <2>2. d.version <= d.version
    BY <2>1 DEF Document
  <2>3. Newest = {d} /\ active = {d}
    BY <1>1, <2>2 DEF Newest
  <2>4. (CHOOSE other \in Newest : TRUE) = d /\ (CHOOSE other \in active : TRUE) = d
    BY <2>3
  <2> QED
    BY <1>3, <1>4, <2>1, <2>3, <2>4 DEF value, Current, Document
<1> QED
  BY <1>2, <1>3, <1>4 DEF Holds, value

\* A step that leaves the documents alone and brings nobody to the insert.
LEMMA SameValue ==
  ASSUME Holds, Holds', active' = active,
         \A c \in Clients : /\ Saving(c)' <=> Saving(c)
                            /\ Saving(c) => request'[c].config = request[c].config
  PROVE  value' = value
<1>1. CASE \E c \in Clients : Saving(c)
  BY <1>1 DEF Holds
<1>2. CASE ~ \E c \in Clients : Saving(c)
  BY <1>2 DEF Holds
<1> QED
  BY <1>1, <1>2

\* A step of c that does not touch the documents nor lead to an insert.
LEMMA QuietStep ==
  ASSUME IInv, Holds, Holds', NEW c \in Clients, active' = active, ~Saving(c), ~Saving(c)',
         \/ \E r : request' = [request EXCEPT ![c] = r]
         \/ \E r, sound : Enter(c, r, sound)
  PROVE  value' = value
<1>1. \A other \in Clients \ {c} : request[other] \in Request
  BY DEF IInv, TypeOK
<1>2. \A other \in Clients \ {c} : /\ request'[other].at = request[other].at
                                  /\ request'[other].config = request[other].config
  <2>1. CASE \E r : request' = [request EXCEPT ![c] = r]
    BY <2>1 DEF IInv, TypeOK
  <2>2. CASE \E r, sound : Enter(c, r, sound)
    <3>1. \A other \in Clients \ {c} : request'[other] = [request[other] EXCEPT !.alone = FALSE]
      BY <2>2 DEF Enter
    <3> QED
      BY <1>1, <3>1 DEF Request
  <2> QED
    BY <2>1, <2>2
<1> QED
  BY <1>2, SameValue DEF Saving

LEMMA EditIsQuiet ==
  ASSUME IInv, NEW c \in Clients, NEW config, NEW version, NEW sound,
         Edit(c, config, version, sound)
  PROVE  /\ ~Saving(c)'
         /\ \/ \E r : request' = [request EXCEPT ![c] = r]
            \/ \E r : Enter(c, r, sound)
<1>1. CASE Accepts(request[c].edit, config)
  <2> DEFINE r == [Idle EXCEPT !.at = "retire", !.version = version + 1,
                               !.config = Apply(request[c].edit, config)]
  <2>1. Enter(c, r, sound)
    BY <1>1 DEF Edit
  <2>2. PICK alone : request'[c] = [r EXCEPT !.alone = alone]
    BY <2>1 DEF Enter
  <2>3. request'[c].at = "retire"
    BY <2>2 DEF Idle
  <2> QED
    BY <2>1, <2>3 DEF Saving
<1>2. CASE ~Accepts(request[c].edit, config)
  <2>1. request' = [request EXCEPT ![c] = Idle]
    BY <1>2 DEF Edit, Leave, GoOn
  <2>2. request'[c] = Idle
    BY <2>1 DEF IInv, TypeOK
  <2> QED
    BY <2>1, <2>2, IdleType DEF Saving
<1> QED
  BY <1>1, <1>2

\* The steps before and after a save change nothing that is stored.
LEMMA QuietActions ==
  ASSUME IInv, ~disturbed, ~disturbed', Holds, Holds', NEW c \in Clients,
         Begin(c) \/ GetSystemConfig(c) \/ FallBack(c) \/ Created(c) \/ FindPrioritised(c)
           \/ Fail(c)
  PROVE  value' = value
<1>0. active' = active
  BY DEF Begin, GetSystemConfig, FallBack, Created, FindPrioritised, Fail
<1>1. ASSUME Begin(c) PROVE value' = value
  <2>1. ~Saving(c)
    BY <1>1 DEF Begin, At, Saving
  <2>2. PICK e \in Edits : IF e.op = "import" THEN ImportConfig(c, e)
                           ELSE GoOn(c, [Idle EXCEPT !.at = "read", !.edit = e])
    BY <1>1 DEF Begin
  <2>3. CASE e.op = "import"
    <3> DEFINE r == [Idle EXCEPT !.at = "retire", !.config = e.config, !.version = 2]
    <3>1. Enter(c, r, TRUE)
      BY <2>2, <2>3 DEF ImportConfig
    <3>2. PICK alone : request'[c] = [r EXCEPT !.alone = alone]
      BY <3>1 DEF Enter
    <3>3. request'[c].at = "retire"
      BY <3>2 DEF Idle
    <3> QED
      BY <1>0, <2>1, <3>1, <3>3, QuietStep DEF Saving
  <2>4. CASE e.op # "import"
    <3> DEFINE r == [Idle EXCEPT !.at = "read", !.edit = e]
    <3>1. request' = [request EXCEPT ![c] = r]
      BY <2>2, <2>4 DEF GoOn
    <3>2. r.at = "read"
      BY DEF Idle
    <3> HIDE DEF r
    <3>3. request'[c].at = "read"
      BY <3>1, <3>2 DEF IInv, TypeOK
    <3> QED
      BY <1>0, <2>1, <3>1, <3>3, QuietStep DEF Saving
  <2> QED
    BY <2>3, <2>4
<1>2. ASSUME NEW config, NEW version, NEW sound, Edit(c, config, version, sound), ~Saving(c)
      PROVE  value' = value
  <2>1. /\ ~Saving(c)'
        /\ \/ \E r : request' = [request EXCEPT ![c] = r]
           \/ \E r : Enter(c, r, sound)
    BY <1>2, EditIsQuiet
  <2> QED
    BY <1>0, <1>2, <2>1, QuietStep
<1>3. ASSUME GetSystemConfig(c) PROVE value' = value
  <2>1. ~Saving(c)
    BY <1>3 DEF GetSystemConfig, At, Saving
  <2>2. ASSUME NEW d \in Newest, Edit(c, d.config, d.version, TRUE) PROVE value' = value
    BY <1>2, <2>1, <2>2
  <2> DEFINE r == [request[c] EXCEPT !.at = "retireDefault", !.version = 2,
                                     !.config = DefaultConfig]
  <2>3. ASSUME Enter(c, r, TRUE) PROVE value' = value
    <3>1. request[c] \in Request
      BY DEF IInv, TypeOK
    <3>2. PICK alone : request'[c] = [r EXCEPT !.alone = alone]
      BY <2>3 DEF Enter
    <3>3. request'[c].at = "retireDefault"
      BY <3>1, <3>2 DEF Request
    <3> QED
      BY <1>0, <2>1, <2>3, <3>3, QuietStep DEF Saving
  <2> QED
    BY <1>3, <2>2, <2>3 DEF GetSystemConfig
<1>4. ASSUME FallBack(c) PROVE value' = value
  BY <1>2, <1>4 DEF FallBack, At, Saving
<1>5. ASSUME Created(c) PROVE value' = value
  BY <1>2, <1>5 DEF Created, At, Saving
<1>6. ASSUME FindPrioritised(c) PROVE value' = value
  <2>1. ~Saving(c)
    BY <1>6 DEF FindPrioritised, At, Saving
  <2>2. ASSUME Leave(c) PROVE value' = value
    <3>1. request' = [request EXCEPT ![c] = Idle] /\ request'[c] = Idle
      BY <2>2 DEF Leave, GoOn, IInv, TypeOK
    <3> QED
      BY <1>0, <2>1, <3>1, IdleType, QuietStep DEF Saving
  <2>3. ASSUME NEW d \in Newest,
               Enter(c, [Idle EXCEPT !.at = "prioritise", !.doc = d.id,
                                     !.version = d.version + 1,
                                     !.config = Apply(request[c].edit, d.config)], TRUE)
        PROVE  value' = value
    <3> DEFINE r == [Idle EXCEPT !.at = "prioritise", !.doc = d.id, !.version = d.version + 1,
                                 !.config = Apply(request[c].edit, d.config)]
    <3>1. Enter(c, r, TRUE)
      BY <2>3
    <3>2. PICK alone : request'[c] = [r EXCEPT !.alone = alone]
      BY <3>1 DEF Enter
    <3>3. request'[c].at = "prioritise"
      BY <3>2 DEF Idle
    <3> QED
      BY <1>0, <2>1, <3>1, <3>3, QuietStep DEF Saving
  <2> QED
    BY <1>6, <2>2, <2>3 DEF FindPrioritised
<1>7. ASSUME Fail(c) PROVE value' = value
  <2>1. ~Saving(c)
    BY <1>7 DEF Fail, Saving
  <2>2. CASE request' = [request EXCEPT ![c] = Idle]
    <3>1. request'[c] = Idle
      BY <2>2 DEF IInv, TypeOK
    <3> QED
      BY <1>0, <2>1, <2>2, <3>1, IdleType, QuietStep DEF Saving
  <2>3. CASE request' = [request EXCEPT ![c].at = "created"]
    <3> DEFINE r == [request[c] EXCEPT !.at = "created"]
    <3>1. request[c] \in Request /\ request' = [request EXCEPT ![c] = r]
      BY <2>3 DEF IInv, TypeOK
    <3>2. request'[c].at = "created"
      BY <2>3, <3>1 DEF IInv, TypeOK, Request
    <3> QED
      BY <1>0, <2>1, <3>1, <3>2, QuietStep DEF Saving
  <2> QED
    BY <1>7, <2>2, <2>3 DEF Fail
<1> QED
  BY <1>1, <1>3, <1>4, <1>5, <1>6, <1>7

\* The register's edits are those of the requests.
LEMMA SameEdits ==
  /\ Register!Edits = Edits
  /\ \A e, config : /\ Register!Accepts(e, config) <=> Accepts(e, config)
                    /\ Register!Apply(e, config) = Apply(e, config)
<1>1. Register!FileConfigs = FileConfigs
  BY DEF Register!FileConfigs, FileConfigs
<1>2. Register!Edits = Edits
  BY <1>1, Zenon DEF Register!Edits, Edits, Register!SourceEntry, SourceEntry
<1>3. ASSUME NEW config, NEW name PROVE Register!Listed(config, name) = Listed(config, name)
  BY DEF Register!Listed, Listed
<1>4. ASSUME NEW places PROVE Register!First(places) = First(places)
  BY DEF Register!First, First
<1>5. ASSUME NEW e, NEW config PROVE Register!Accepts(e, config) <=> Accepts(e, config)
  BY <1>3, Zenon DEF Register!Accepts, Accepts, Register!InPlace, InPlace
<1>6. ASSUME NEW e, NEW config PROVE Register!Apply(e, config) = Apply(e, config)
  <2>1. /\ Register!AddSource(e, config) = AddSource(e, config)
        /\ Register!PrioritiseSource(e, config) = PrioritiseSource(e, config)
        /\ Register!PutSource(e, config) = PutSource(e, config)
        /\ Register!OrderSources(e, config) = OrderSources(e, config)
    BY <1>3, <1>4, Zenon DEF Register!AddSource, AddSource, Register!PutSource, PutSource,
         Register!PrioritiseSource, PrioritiseSource, Register!OrderSources, OrderSources
  <2>2. Register!DropSource(e, config) = DropSource(e, config)
    BY <1>3, <1>4, Zenon DEF Register!DropSource, DropSource, Register!RemoveAt, RemoveAt
  <2>3. /\ Register!AddDatabase(e, config) = AddDatabase(e, config)
        /\ Register!DropDatabase(e, config) = DropDatabase(e, config)
    BY Zenon DEF Register!AddDatabase, AddDatabase, Register!DropDatabase, DropDatabase
  <2> QED
    BY <2>1, <2>2, <2>3, Zenon DEF Register!Apply, Apply
<1> QED
  BY <1>2, <1>5, <1>6

\* Retiring is when a change takes effect: an accepted edit of what the register
\* holds, or the default configuration in an empty one.
LEMMA RetireChanges ==
  ASSUME IInv, ~disturbed, Holds, Holds', NEW c \in Clients, Retire(c)
  PROVE  Register!StoreDefault \/ Register!Change
<1>1. /\ request[c].at \in {"retire", "retireDefault"}
      /\ request' = [request EXCEPT ![c] = [request[c] EXCEPT !.at =
                        IF At(c, "retire") THEN "insert" ELSE "insertDefault"]]
  BY DEF Retire, GoOn
<1>2. request[c] \in Request
  BY DEF IInv, TypeOK
<1>3. Changing(c)
  BY <1>1 DEF Changing
<1>4. /\ \A other \in Clients : Changing(other) => other = c
      /\ SavesAnEdit(c)
  BY <1>3 DEF IInv, Sound
<1>5. \A other \in Clients : ~Saving(other)
  BY <1>1, <1>4 DEF Saving, Changing
<1>6. value' = request[c].config
  <2>1. request'[c] = [request[c] EXCEPT !.at =
                         IF At(c, "retire") THEN "insert" ELSE "insertDefault"]
    BY <1>1 DEF IInv, TypeOK
  <2>2. request'[c].at \in {"insert", "insertDefault"} /\ request'[c].config = request[c].config
    BY <1>2, <2>1 DEF Request
  <2> QED
    BY <2>2 DEF Holds, Saving
<1>7. (IF value = Unset THEN DefaultConfig ELSE value) = Current
  <2>1. CASE active = {}
    BY <1>5, <2>1 DEF Holds, Current
  <2>2. CASE active # {}
    <3>1. PICK d \in active : TRUE
      BY <2>2
    <3>2. value = d.config /\ Current = d.config /\ d.config \in Config
      BY <1>5 DEF Holds
    <3> QED
      BY <3>2, ConfigAssumption
  <2> QED
    BY <2>1, <2>2
<1>8. CASE At(c, "retire")
  <2>1. PICK e \in Edits : Accepts(e, Current) /\ request[c].config = Apply(e, Current)
    BY <1>4, <1>8 DEF SavesAnEdit
  <2> QED
    BY <1>6, <1>7, <2>1, SameEdits, Zenon DEF Register!Change
<1>9. CASE At(c, "retireDefault")
  <2>1. active = {} /\ request[c].config = DefaultConfig
    BY <1>4, <1>9 DEF SavesAnEdit, IInv, Prepared, At
  <2>2. value = Unset
    BY <1>5, <2>1 DEF Holds
  <2> QED
    BY <1>6, <2>1, <2>2 DEF Register!StoreDefault
<1> QED
  BY <1>1, <1>8, <1>9 DEF At

\* The insert puts there what the register holds already.
LEMMA InsertKeeps ==
  ASSUME IInv, ~disturbed, IInv', ~disturbed', Holds, Holds', NEW c \in Clients, Insert(c)
  PROVE  value' = value
<1> DEFINE new == [id |-> nextId, version |-> request[c].version,
                   config |-> request[c].config, owner |-> c]
<1>1. /\ request[c].at \in {"insert", "insertDefault"} /\ new \in active'
      /\ request' = [request EXCEPT ![c] = IF At(c, "insert") THEN Idle
                                           ELSE [request[c] EXCEPT !.at = "created"]]
  BY DEF Insert
<1>2. new.config = request[c].config
  OBVIOUS
<1> HIDE DEF new
<1>3. \A other \in Clients : Saving(other) => other = c
  BY <1>1 DEF IInv, Sound, Saving, Changing
<1>4. request[c] \in Request
  BY DEF IInv, TypeOK
<1>5. ~Saving(c)'
  <2>1. request'[c] = IF At(c, "insert") THEN Idle ELSE [request[c] EXCEPT !.at = "created"]
    BY <1>1 DEF IInv, TypeOK
  <2> QED
    BY <1>4, <2>1, IdleType DEF Saving, Request
<1>6. \A other \in Clients \ {c} : request'[other] = request[other]
  BY <1>1 DEF IInv, TypeOK
<1>7. \A other \in Clients : ~Saving(other)'
  BY <1>3, <1>5, <1>6 DEF Saving
<1>8. value' = request[c].config
  BY <1>1, <1>2, <1>7 DEF Holds
<1>9. value = request[c].config
  BY <1>1 DEF Holds, Saving
<1> QED
  BY <1>8, <1>9

\* A priority is an accepted edit of the document it is written to.
LEMMA PrioritiseChanges ==
  ASSUME IInv, ~disturbed, Holds, Holds', NEW c \in Clients, Prioritise(c)
  PROVE  Register!Change \/ value' = value
<1> DEFINE Written(d) == IF d.id = request[c].doc
                         THEN [d EXCEPT !.config = request[c].config,
                                        !.version = request[c].version]
                         ELSE d
<1>1. /\ active' = {Written(d) : d \in active} /\ At(c, "prioritise")
      /\ request' = [request EXCEPT ![c] = Idle]
  BY DEF Prioritise, Leave, GoOn
<1>2. \A other \in Clients : Changing(other) => other = c
  BY <1>1 DEF IInv, Sound, Changing, At
<1>3. \A other \in Clients : ~Saving(other)
  BY <1>1, <1>2 DEF Saving, Changing, At
<1>4. request'[c] = Idle /\ \A other \in Clients \ {c} : request'[other] = request[other]
  BY <1>1 DEF IInv, TypeOK
<1>5. \A other \in Clients : ~Saving(other)'
  BY <1>3, <1>4, IdleType DEF Saving
<1>6. CASE active = {}
  BY <1>1, <1>3, <1>5, <1>6 DEF Holds
<1>7. ASSUME NEW d \in active PROVE Register!Change \/ value' = value
  <2>1. value = d.config /\ d.config \in Config
    BY <1>3 DEF Holds
  <2>2. d \in Document
    BY DEF IInv, TypeOK
  <2>3. value' = Written(d).config
    <3>1. Written(d) \in active'
      BY <1>1
    <3> HIDE DEF Written
    <3> QED
      BY <1>5, <3>1 DEF Holds
  <2>4. CASE d.id # request[c].doc
    BY <2>1, <2>3, <2>4
  <2>5. CASE d.id = request[c].doc
    <3>1. PICK e \in Edits : Accepts(e, d.config) /\ request[c].config = Apply(e, d.config)
      BY <1>1, <2>5 DEF IInv, Sound, SavesAnEdit, Changing, At
    <3>2. Written(d).config = request[c].config
      BY <2>2, <2>5 DEF Document
    <3>3. value # Unset
      BY <2>1, ConfigAssumption
    <3>4. Register!Change
      <4>1. (IF value = Unset THEN DefaultConfig ELSE value) = d.config
        BY <2>1, <3>3
      <4>2. value' = Apply(e, d.config)
        BY <2>3, <3>1, <3>2
      <4> QED
        BY <3>1, <4>1, <4>2, SameEdits, Zenon DEF Register!Change
    <3> QED
      BY <3>4
  <2> QED
    BY <2>4, <2>5
<1> QED
  BY <1>6, <1>7

\* While nothing disturbs it, the collection of documents is one register:
\* every change of what it holds is an accepted edit, or the default put into
\* an empty one.
THEOREM IsOneRegister == Spec => IsRegister
<1>0. IInv' /\ ~disturbed' => Holds'
  BY HoldsWhenSound, PTL
<1>1. Init => Register!Init
  <2> SUFFICES ASSUME Init PROVE value = Unset
    BY DEF Register!Init
  <2>1. inserting = {}
    BY IdleType DEF Init, inserting
  <2> QED
    BY <2>1 DEF Init, value
<1>2. IInv /\ IInv' /\ [Next]_vars
        => [disturbed' \/ disturbed \/ Register!Next]_<<disturbed, value>>
  <2> SUFFICES ASSUME IInv, IInv', [Next]_vars, ~disturbed, ~disturbed'
               PROVE  Register!Next \/ value' = value
    BY DEF IInv, TypeOK
  <2>1. Holds /\ Holds'
    BY HoldsWhenSound, <1>0
  <2>2. ASSUME NEW c \in Clients, Serve(c) PROVE Register!Next \/ value' = value
    <3>1. CASE Retire(c)
      BY <2>1, <3>1, RetireChanges DEF Register!Next
    <3>2. CASE Insert(c)
      BY <2>1, <3>2, InsertKeeps
    <3>3. CASE Prioritise(c)
      BY <2>1, <3>3, PrioritiseChanges DEF Register!Next
    <3>4. CASE Begin(c) \/ GetSystemConfig(c) \/ FallBack(c) \/ Created(c)
                 \/ FindPrioritised(c) \/ Fail(c)
      BY <2>1, <3>4, QuietActions
    <3> QED
      BY <2>2, <3>1, <3>2, <3>3, <3>4 DEF Serve
  <2>3. CASE UNCHANGED vars
    BY <2>3 DEF vars, value, inserting, Newest
  <2> QED
    BY <2>2, <2>3 DEF Next
<1>3. IInv => ReadersAgree
  BY DEF IInv, Sound, ReadersAgree
<1> QED
  BY <1>1, <1>2, <1>3, Inductive, PTL DEF Spec, IsRegister
=============================================================================
