---------------------------- MODULE ConfigEdits ----------------------------
(***************************************************************************)
(* The system configuration (SystemConfig in app/models/config.py) and what *)
(* each request of the configuration pages changes in it.  Models, sources  *)
(* and databases are known by name; a source keeps its priority; of the     *)
(* databases only how often each is listed is kept.                        *)
(***************************************************************************)
EXTENDS Integers, SequencesExt

CONSTANTS Models, Sources, Databases, Priorities, Settings,
          None,          \* no default chosen
          DefaultConfig  \* what _create_default_config builds

SourceEntry == [name : Sources, priority : Priorities]

Config == [models : SUBSET Models, defaultModel : Models \cup {None},
           sources : Seq(SourceEntry), defaultSource : Sources \cup {None},
           databases : [Databases -> Nat], settings : Settings]

(* What files hold: an export to import, the JSON files read when the       *)
(* database cannot be.                                                     *)
FileConfigs == {[DefaultConfig EXCEPT !.models = {}, !.settings = v] : v \in Settings}

Edits == [op : {"read"}]
         \cup [op : {"putModel", "dropModel", "chooseModel"}, name : Models]
         \cup [op : {"addSource", "prioritise", "order"}, name : Sources, priority : Priorities]
         \cup [op : {"putSource"}, name : Sources, entry : SourceEntry]
         \cup [op : {"dropSource", "chooseSource"}, name : Sources]
         \cup [op : {"addDatabase", "putDatabase", "dropDatabase"}, name : Databases]
         \cup [op : {"changeSettings"}, settings : Settings]
         \cup [op : {"import"}, config : FileConfigs]

(* The requests that write into the stored document itself.                *)
InPlace == {"prioritise", "order"}

(* The places of a source in the list, and the first of them.              *)
Listed(config, name) == {i \in DOMAIN config.sources : config.sources[i].name = name}
First(places) == CHOOSE i \in places : \A j \in places : i <= j

(* Whether the request goes on to change the configuration.                *)
Accepts(e, config) ==
  CASE e.op = "read" -> FALSE
    [] e.op \in {"dropModel", "chooseModel"} -> e.name \in config.models
    [] e.op \in {"putSource", "dropSource", "chooseSource"} \cup InPlace ->
         Listed(config, e.name) # {}
    [] e.op \in {"putDatabase", "dropDatabase"} -> config.databases[e.name] > 0
    [] OTHER -> TRUE

(* A list may hold a name twice, as nothing refuses it when it is added or  *)
(* renamed: the first entry is changed or taken out, but all of a database  *)
(* are, and all of a source get the priority of a new order.               *)
AddSource(e, config) ==
  [config EXCEPT !.sources = Append(@, [name |-> e.name, priority |-> e.priority])]
PutSource(e, config) ==
  [config EXCEPT !.sources[First(Listed(config, e.name))] = e.entry]
DropSource(e, config) ==
  [config EXCEPT !.sources = RemoveAt(@, First(Listed(config, e.name)))]
PrioritiseSource(e, config) ==
  [config EXCEPT !.sources[First(Listed(config, e.name))].priority = e.priority]
OrderSources(e, config) ==
  [config EXCEPT !.sources = [i \in DOMAIN @ |->
     IF i \in Listed(config, e.name) THEN [@[i] EXCEPT !.priority = e.priority] ELSE @[i]]]
AddDatabase(e, config) == [config EXCEPT !.databases[e.name] = @ + 1]
DropDatabase(e, config) == [config EXCEPT !.databases[e.name] = 0]

Apply(e, config) ==
  CASE e.op = "putModel" -> [config EXCEPT !.models = @ \cup {e.name}]
    [] e.op = "dropModel" -> [config EXCEPT !.models = @ \ {e.name}]
    [] e.op = "chooseModel" -> [config EXCEPT !.defaultModel = e.name]
    [] e.op = "addSource" -> AddSource(e, config)
    [] e.op = "putSource" -> PutSource(e, config)
    [] e.op = "dropSource" -> DropSource(e, config)
    [] e.op = "chooseSource" -> [config EXCEPT !.defaultSource = e.name]
    [] e.op = "prioritise" -> PrioritiseSource(e, config)
    [] e.op = "order" -> OrderSources(e, config)
    [] e.op = "addDatabase" -> AddDatabase(e, config)
    [] e.op = "dropDatabase" -> DropDatabase(e, config)
    [] e.op = "changeSettings" -> [config EXCEPT !.settings = e.settings]
    [] e.op = "import" -> e.config
    [] OTHER -> config
=============================================================================
