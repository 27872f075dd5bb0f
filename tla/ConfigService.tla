--------------------------- MODULE ConfigService ---------------------------
(***************************************************************************)
(* The system configuration in MongoDB (app/services/config_service.py and  *)
(* the requests of app/routers/config.py).  Every change reads the whole    *)
(* active document, changes it in memory, retires all the active documents  *)
(* and inserts a new one; a priority is written into the document that was  *)
(* read.  A step is one MongoDB operation with the code up to the next one. *)
(* Retired documents are not kept: nothing reads them.  The JSON files that *)
(* replace the database when it cannot be read are not followed.            *)
(***************************************************************************)
EXTENDS ConfigEdits

CONSTANTS Clients,
          Unset,       \* no configuration is stored
          MaxRequests  \* bound of the model

ASSUME ConfigAssumption ==
  MaxRequests \in Nat /\ DefaultConfig \in Config /\ Unset \notin Config

VARIABLES
  active,    \* the documents of system_configs that are active
  nextId,    \* the next document id
  request,   \* what each client's request has read and does next
  started,   \* requests so far
  disturbed  \* two changes overlapped (a read that stores the default is one),
             \* one stopped after retiring, or one could not read the database;
             \* and no change without company has come after

vars == <<active, nextId, request, started, disturbed>>

Idle == [at |-> "idle", edit |-> [op |-> "read"], config |-> DefaultConfig,
         version |-> 0, doc |-> 0, alone |-> FALSE]

At(c, place) == request[c].at = place
(* c has read a configuration that it is going to write back changed.      *)
Changing(c) == request[c].at \in {"retire", "insert", "retireDefault", "insertDefault",
                                  "created", "prioritise"}

Init == /\ active = {} /\ nextId = 1
        /\ request = [c \in Clients |-> Idle]
        /\ started = 0 /\ disturbed = FALSE
-----------------------------------------------------------------------------
(* c starts, or goes on with, a change as request r; what it changes is    *)
(* `sound' if it comes from the database.  A request that only reads makes *)
(* a change too when it finds nothing active, for it stores the default:   *)
(* so does one that reads between the retire and the insert of another.    *)
Enter(c, r, sound) ==
  LET others == {other \in Clients \ {c} : Changing(other)}
      alone == IF Changing(c) THEN request[c].alone ELSE others = {}
  IN /\ request' = [other \in Clients |->
          IF other = c THEN [r EXCEPT !.alone = alone]
                       ELSE [request[other] EXCEPT !.alone = FALSE]]
     /\ disturbed' = (disturbed \/ others # {} \/ ~sound)

GoOn(c, r) == request' = [request EXCEPT ![c] = r] /\ UNCHANGED disturbed
Leave(c) == GoOn(c, Idle)

(* Wrong variant: a default model is chosen without looking for it.        *)
EditUnchecked(c, config, version, sound) ==
  IF Accepts(request[c].edit, config) \/ request[c].edit.op = "chooseModel"
  THEN Enter(c, [Idle EXCEPT !.at = "retire", !.version = version + 1,
                             !.config = Apply(request[c].edit, config)], sound)
  ELSE Leave(c)

(* The request has its configuration: it is done, or saves a changed one.  *)
Edit(c, config, version, sound) ==
  IF Accepts(request[c].edit, config)
  THEN Enter(c, [Idle EXCEPT !.at = "retire", !.version = version + 1,
                             !.config = Apply(request[c].edit, config)], sound)
  ELSE Leave(c)

(* An import saves without reading; its configuration has version 1.       *)
ImportConfig(c, e) ==
  Enter(c, [Idle EXCEPT !.at = "retire", !.config = e.config, !.version = 2], TRUE)

Begin(c) ==
  /\ At(c, "idle") /\ started < MaxRequests
  /\ \E e \in Edits : IF e.op = "import" THEN ImportConfig(c, e)
                      ELSE GoOn(c, [Idle EXCEPT !.at = "read", !.edit = e])
  /\ started' = started + 1
  /\ UNCHANGED <<active, nextId>>

Newest == {d \in active : \A other \in active : other.version <= d.version}

(* The active document of the highest version, else the default            *)
(* configuration, which is saved first.                                    *)
GetSystemConfig(c) ==
  /\ At(c, "read") /\ request[c].edit.op \notin InPlace
  /\ \/ \E d \in Newest : Edit(c, d.config, d.version, TRUE)
     \/ /\ active = {}
        /\ Enter(c, [request[c] EXCEPT !.at = "retireDefault", !.version = 2,
                                       !.config = DefaultConfig], TRUE)
  /\ UNCHANGED <<active, nextId, started>>

(* When the database cannot be read, the configuration of the files.       *)
FallBack(c) ==
  /\ At(c, "read") /\ request[c].edit.op \notin InPlace
  /\ \E config \in FileConfigs : Edit(c, config, 1, FALSE)
  /\ UNCHANGED <<active, nextId, started>>

(* Wrong variant: only the document that readers get is retired.           *)
RetireNewest(c) ==
  /\ request[c].at \in {"retire", "retireDefault"}
  /\ active' = active \ Newest
  /\ GoOn(c, [request[c] EXCEPT !.at = IF At(c, "retire") THEN "insert" ELSE "insertDefault"])
  /\ UNCHANGED <<nextId, started>>

(* save_system_config retires every active document ...                    *)
Retire(c) ==
  /\ request[c].at \in {"retire", "retireDefault"}
  /\ active' = {}
  /\ GoOn(c, [request[c] EXCEPT !.at = IF At(c, "retire") THEN "insert" ELSE "insertDefault"])
  /\ UNCHANGED <<nextId, started>>

(* ... and inserts the new one.  Without company since it read, the change *)
(* leaves one document that is the configuration, whatever there was.      *)
Insert(c) ==
  /\ request[c].at \in {"insert", "insertDefault"}
  /\ active' = active \cup {[id |-> nextId, version |-> request[c].version,
                             config |-> request[c].config, owner |-> c]}
  /\ nextId' = nextId + 1
  /\ request' = [request EXCEPT ![c] =
       IF At(c, "insert") THEN Idle ELSE [@ EXCEPT !.at = "created"]]
  /\ disturbed' = (disturbed /\ ~request[c].alone)
  /\ UNCHANGED started

(* The default configuration is saved, or was not: the request goes on.    *)
Created(c) == /\ At(c, "created")
              /\ Edit(c, request[c].config, request[c].version, TRUE)
              /\ UNCHANGED <<active, nextId, started>>

(* update_category_datasource_order, update_datasource_grouping: the active *)
(* document is read ...                                                    *)
FindPrioritised(c) ==
  /\ At(c, "read") /\ request[c].edit.op \in InPlace
  /\ \/ /\ active = {} /\ Leave(c)
     \/ \E d \in Newest :
          IF Accepts(request[c].edit, d.config)
          THEN Enter(c, [Idle EXCEPT !.at = "prioritise", !.doc = d.id,
                                     !.version = d.version + 1,
                                     !.config = Apply(request[c].edit, d.config)], TRUE)
          ELSE Leave(c)
  /\ UNCHANGED <<active, nextId, started>>

(* ... and its sources and version are written, if it still is active: the  *)
(* rest of a document never changes.                                       *)
Prioritise(c) ==
  /\ At(c, "prioritise")
  /\ active' = {IF d.id = request[c].doc
                THEN [d EXCEPT !.config = request[c].config, !.version = request[c].version]
                ELSE d : d \in active}
  /\ Leave(c)
  /\ UNCHANGED <<nextId, started>>

(* An operation fails: the request ends, but a default configuration that  *)
(* could not be saved is worked with all the same.                         *)
Fail(c) ==
  /\ ~At(c, "idle")
  /\ \/ request' = [request EXCEPT ![c] = Idle]
     \/ /\ request[c].at \in {"retireDefault", "insertDefault"}
        /\ request' = [request EXCEPT ![c].at = "created"]
  /\ disturbed' = (disturbed \/ request[c].at \in {"insert", "insertDefault"})
  /\ UNCHANGED <<active, nextId, started>>

Serve(c) == \/ Begin(c) \/ GetSystemConfig(c) \/ FallBack(c) \/ Created(c)
            \/ Retire(c) \/ Insert(c) \/ FindPrioritised(c) \/ Prioritise(c) \/ Fail(c)

Next == \E c \in Clients : Serve(c)

Spec == Init /\ [][Next]_vars
-----------------------------------------------------------------------------
Places == {"idle", "read", "retire", "insert", "retireDefault", "insertDefault", "created",
           "prioritise"}

Document == [id : Nat, version : Nat \ {0, 1}, config : Config, owner : Clients]

Request == [at : Places, edit : Edits, config : Config,
            version : Nat, doc : Nat, alone : BOOLEAN]

TypeOK ==
  /\ active \subseteq Document
  /\ nextId \in Nat /\ started \in 0..MaxRequests /\ disturbed \in BOOLEAN
  /\ request \in [Clients -> Request]

(* However the saves interleave and fail, no client leaves two documents   *)
(* active, nor one while it is about to insert another: there are never    *)
(* more active configurations than there are requests at the same time.    *)
OneActiveEach ==
  /\ \A d, e \in active : d.owner = e.owner => d = e
  /\ \A d \in active : request[d.owner].at \notin {"insert", "insertDefault"}

(* Readers that do not ask for the highest version (config_bridge.py,      *)
(* data_source_manager.py) get the same configuration as those that do.    *)
ReadersAgree == ~disturbed => \A d, e \in active : d = e

inserting == {c \in Clients : request[c].at \in {"insert", "insertDefault"}}
value == IF inserting # {} THEN request[CHOOSE c \in inserting : TRUE].config
         ELSE IF active = {} THEN Unset
         ELSE (CHOOSE d \in Newest : TRUE).config

Register == INSTANCE ConfigRegister WITH value <- value

(* As long as no two changes overlap and none fails between its retiring   *)
(* and its insert, every change is one step of a register: what was saved  *)
(* before is in what is saved next, and a read that finds a configuration  *)
(* changes nothing that is stored.  (A read that falls between the retire  *)
(* and the insert of another client finds none, stores the default and is  *)
(* an overlapping change itself: even a plain GET ends the promise then.)  *)
(* After that nothing is promised until a change that meets no other has   *)
(* been saved: from then on it is one register again.                      *)
IsRegister ==
  /\ Register!Init
  /\ [][disturbed' \/ disturbed \/ Register!Next]_<<disturbed, value>>
  /\ []ReadersAgree
=============================================================================
