----------------------------- MODULE SwitchProxy -----------------------------
(***************************************************************************)
(* The Python client of the switchboard (mantle/switchboard/python): the   *)
(* board of local Switch objects that one thread, the reader of the signal *)
(* stream, keeps current and that the application's thread reads, adds to  *)
(* and operates.  A board has one lock, for its map of switches.           *)
(*                                                                         *)
(* The server, modelled by what its handlers do to names and              *)
(* specifications, executes a request in one step and puts what changed on *)
(* the stream; other clients' requests reach it at any time.               *)
(***************************************************************************)
EXTENDS Integers, Sequences, FiniteSets, SequencesExt, Functions, TLC

CONSTANTS
    SwitchNames,        \* names and aliases of switches
    Languages,    \* of localizations
    Handles,      \* local Switch objects, in the order of their creation: 1 .. n
    OtherRequests,\* what other clients may ask
    MaxRequests,  \* bound on the requests, of this client and of others
    Nil

VARIABLES
    board,      \* the server's switches
    stream,     \* signals on their way to this client
    switches,   \* the client's map from name to local switch
    local,      \* the local switches, registered or not
    lock,       \* _switch_lock: Nil (free), "app" or "reader"
    app,        \* the application's thread: its place, and the name it adds
    held,       \* the switch that get_or_add_switch() last returned
    reader,     \* the reader's thread: the local switch it updates, and the message
    told,       \* what the callback of each local switch that has one was last shown
    requests,   \* requests so far
    popped,     \* local switches whose removal was received (history)
    phantoms    \* names that the server took for an alias when they were added (history)

serverVars == <<board, stream, requests>>
clientVars == <<switches, local, lock, app, held, reader, popped, told>>
proxyVars == <<serverVars, clientVars, phantoms>>

PendingStates == {"ACTIVATING", "DEACTIVATING", "FAILING"}
Settled == {"ACTIVE", "INACTIVE", "FAILED"}
States == {"INITIAL"} \cup PendingStates \cup Settled

\* f with x mapped to v, f without x.
With(f, x, v) == [y \in DOMAIN f \cup {x} |-> IF y = x THEN v ELSE f[y]]
Without(f, x) == Restrict(f, DOMAIN f \ {x})

Spec0 == [aliases |-> {}, languages |-> {}, primary |-> FALSE]
Blank(n) == [name |-> n, spec |-> Spec0, status |-> "INITIAL"]
Specs == [aliases : SUBSET SwitchNames, languages : SUBSET Languages, primary : BOOLEAN]
Switch == [name : SwitchNames, status : States, spec : Specs]

Signals == [field : {"specification"}, action : {"ADDITION", "UPDATE", "REMOVAL"}, key : SwitchNames, value : Specs]
           \cup [field : {"status"}, action : {"UPDATE", "REMOVAL"}, key : SwitchNames, value : States]
Signal(field, action, n, value) == [field |-> field, action |-> action, key |-> n, value |-> value]

Requests == [kind : {"add", "remove"}, name : SwitchNames]
            \cup [kind : {"target"}, name : SwitchNames, target : Settled]
            \cup [kind : {"spec"}, name : SwitchNames, aliases : SUBSET SwitchNames,
                  languages : SUBSET Languages, replace : BOOLEAN, primary : BOOLEAN \cup {Nil}]

ASSUME ProxyAssumption ==
    /\ Nil \notin SwitchNames \cup Handles \cup Signals \cup {"app"}
    /\ Handles = 1 .. Cardinality(Handles)
    /\ OtherRequests \subseteq Requests

Count(f) == Cardinality(DOMAIN f)

ProxyTypeOK ==
    /\ stream \in Seq(Signals)
    /\ DOMAIN board \subseteq SwitchNames /\ \A n \in DOMAIN board : board[n] \in Switch
    /\ DOMAIN switches \subseteq SwitchNames /\ \A n \in DOMAIN switches : switches[n] \in DOMAIN local
    /\ DOMAIN local \subseteq Handles /\ \A h \in DOMAIN local : local[h] \in Switch
    /\ lock \in {Nil, "app"} /\ held \in DOMAIN local \cup {Nil}
    /\ app.pc \in {"idle", "add", "register", "initial"}
    /\ (lock = "app") = (app.pc # "idle")
    /\ reader.switch \in DOMAIN local \cup {Nil}

ProxyInit ==
    /\ board = <<>> /\ stream = <<>> /\ requests = 0
    /\ switches = <<>> /\ local = <<>> /\ lock = Nil /\ held = Nil
    /\ app = [pc |-> "idle", name |-> Nil] /\ reader = [switch |-> Nil, msg |-> Nil]
    /\ popped = {} /\ phantoms = {} /\ told = <<>>

--------------------------------------------------------------------------
(* What an application reads of a switch *)

Raises == [kind |-> "raises"]

Target(s) == CASE s.status = "ACTIVATING" -> TRUE [] s.status = "DEACTIVATING" -> FALSE
               [] OTHER -> Nil
IsPending(s) == s.status \in PendingStates

\* get_localization() of one language; a list of choices raises (the name "choices").
GetLocalization(s, l) == IF l \in s.spec.languages THEN l ELSE Raises

\* get_description(), get_target_texts(), get_state_texts(): parts of a localization.
Texts(s, l) == GetLocalization(s, l)

View(s) == [name |-> s.name, aliases |-> s.spec.aliases, primary |-> s.spec.primary,
            localizations |-> [l \in Languages |-> Texts(s, l)],
            state |-> s.status, pending |-> IsPending(s), target |-> Target(s)]

--------------------------------------------------------------------------
(* The server: what a request does *)

\* A switch is found by its name, then by an alias.
FindOn(b, n) == IF n \in DOMAIN b THEN n
                ELSE IF \E m \in DOMAIN b : n \in b[m].spec.aliases
                THEN CHOOSE m \in DOMAIN b : n \in b[m].spec.aliases ELSE Nil

\* The states that a switch goes through on its way to a target.
Via(s) == CASE s = "ACTIVE" -> "ACTIVATING" [] s = "INACTIVE" -> "DEACTIVATING"
            [] s = "FAILED" -> "FAILING"

SpecOf(s, r) == [aliases   |-> IF r.replace THEN r.aliases ELSE s.aliases \cup r.aliases,
                 languages |-> s.languages \cup r.languages,
                 primary   |-> IF r.primary = Nil THEN s.primary ELSE r.primary]

\* The board after a request, and the signals that it sends.
Served(r) ==
    LET n    == FindOn(board, r.name)
        old  == board[n]
        put(s) == With(board, n, s)
    IN
    CASE r.kind = "add" /\ n = Nil ->
           [board |-> With(board, r.name, Blank(r.name)),
            sent  |-> <<Signal("specification", "ADDITION", r.name, Spec0)>>]
      [] r.kind = "remove" /\ n # Nil ->
           [board |-> Without(board, n),
            sent  |-> (IF old.status = "INITIAL" THEN <<>>
                       ELSE <<Signal("status", "REMOVAL", n, "INITIAL")>>)
                      \o <<Signal("specification", "REMOVAL", n, Spec0)>>]
      [] r.kind = "spec" /\ n # Nil ->
           [board |-> put([old EXCEPT !.spec = SpecOf(@, r)]),
            sent  |-> IF SpecOf(old.spec, r) = old.spec THEN <<>>
                      ELSE <<Signal("specification", "UPDATE", n, SpecOf(old.spec, r))>>]
      [] r.kind = "target" /\ n # Nil /\ old.status # r.target ->
           [board |-> put([old EXCEPT !.status = r.target]),
            sent  |-> <<Signal("status", "UPDATE", n, Via(r.target)),
                        Signal("status", "UPDATE", n, r.target)>>]
      [] OTHER -> [board |-> board, sent |-> <<>>]

Serve(r) ==
    /\ r # Raises /\ requests < MaxRequests
    /\ board' = Served(r).board
    /\ stream' = stream \o Served(r).sent
    /\ requests' = requests + 1

Others == \E r \in OtherRequests : Serve(r) /\ UNCHANGED <<clientVars, phantoms>>

--------------------------------------------------------------------------
(* The operations of a switch: the request of each, or that it raises *)

SpecRequest(s, aliases, languages, replace) ==
    [kind |-> "spec", name |-> s.name, aliases |-> aliases, languages |-> languages,
     replace |-> replace, primary |-> Nil]
TargetRequest(s, target) == [kind |-> "target", name |-> s.name, target |-> target]
AddRequest(n) == [kind |-> "add", name |-> n]
RemoveRequest(n) == [kind |-> "remove", name |-> n]

SetAliases(s, aliases) == SpecRequest(s, aliases, {}, TRUE)
AddAliases(s, aliases) == SpecRequest(s, aliases, {}, FALSE)

\* What is left follows from the aliases that this client has heard of.
RemoveAliases(s, aliases) == SetAliases(s, s.spec.aliases \ aliases)

SetPrimary(s, primary) == [SpecRequest(s, {}, {}, FALSE) EXCEPT !.primary = primary]

\* A message with localizations; a dictionary raises (the name LocalizationsMap).
SetLocalizations(s, languages) == SpecRequest(s, {}, languages, FALSE)
SetLocalizationsFrom(s, dictionary) == Raises

\* encodeLocalization() lacks an argument; set_target_texts() and set_state_texts().
SetLocalization(s, language) == Raises
SetTargetTexts(s, language) == SetLocalization(s, language)
SetStateTexts(s, language) == Raises

\* SwitchNames that do not exist, arguments that the message does not have.
RemoveDependency(s, n) == Raises
AddInterceptor(s) == Raises
InvokeInterceptor(s) == Raises

SetTarget(s, target) == TargetRequest(s, target)
SetActive(s, active) == SetTarget(s, IF active THEN "ACTIVE" ELSE "INACTIVE")
SetError(s) == SetTarget(s, "FAILED")

Operations(s) ==
    LET aliases == SwitchNames \ {s.name} IN
    {SetLocalizations(s, {l}) : l \in Languages}
        \cup {SetLocalizationsFrom(s, {l}) : l \in Languages}
        \cup {SetTargetTexts(s, l) : l \in Languages} \cup {SetStateTexts(s, l) : l \in Languages}
        \cup {AddAliases(s, {a}) : a \in aliases}
        \cup {RemoveDependency(s, a) : a \in aliases}
        \cup {SetPrimary(s, TRUE), AddInterceptor(s), InvokeInterceptor(s), SetActive(s, TRUE), SetActive(s, FALSE),
              SetError(s)}

--------------------------------------------------------------------------
(* The application's thread *)

\* get_switch(): by name, then by alias.
GetSwitch(n) ==
    IF n \in DOMAIN switches THEN switches[n]
    ELSE LET known == {m \in DOMAIN switches : n \in local[switches[m]].spec.aliases}
         IN  IF known = {} THEN Nil ELSE switches[CHOOSE m \in known : TRUE]

\* Fault: get_or_add_switch() returns what it found without giving back the lock.
GetOrAddKept(n) ==
    /\ app.pc = "idle" /\ lock = Nil
    /\ held' = GetSwitch(n)
    /\ lock' = "app"
    /\ app' = [pc |-> IF GetSwitch(n) = Nil THEN "add" ELSE "idle", name |-> n]
    /\ UNCHANGED <<serverVars, switches, local, reader, popped, told, phantoms>>

\* get_or_add_switch(): it holds the lock until it returns.
GetOrAdd(n) ==
    /\ app.pc = "idle" /\ lock = Nil
    /\ held' = GetSwitch(n)
    /\ IF GetSwitch(n) = Nil
       THEN lock' = "app" /\ app' = [pc |-> "add", name |-> n]
       ELSE UNCHANGED <<lock, app>>
    /\ UNCHANGED <<serverVars, switches, local, reader, popped, told, phantoms>>

\* add_switch(), the request; its result is not looked at.
AddSwitch ==
    /\ app.pc = "add" /\ Serve(AddRequest(app.name))
    /\ app' = [app EXCEPT !.pc = "register"]
    /\ phantoms' = IF FindOn(board, app.name) \in {Nil, app.name} THEN phantoms
                   ELSE phantoms \cup {app.name}
    /\ UNCHANGED <<switches, local, lock, held, reader, popped, told>>

NextHandle == Count(local) + 1

\* The new local switch, with an initial value or without.
Register ==
    /\ app.pc = "register" /\ NextHandle \in Handles
    /\ local' = With(local, NextHandle, Blank(app.name))
    /\ switches' = With(switches, app.name, NextHandle)
    /\ held' = NextHandle
    /\ \/ app' = [app EXCEPT !.pc = "initial"] /\ lock' = lock
       \/ app' = [pc |-> "idle", name |-> Nil] /\ lock' = Nil
    /\ UNCHANGED <<serverVars, reader, popped, told, phantoms>>

SetInitial ==
    /\ app.pc = "initial"
    /\ \E active \in BOOLEAN : Serve(SetActive(local[held], active))
    /\ app' = [pc |-> "idle", name |-> Nil] /\ lock' = Nil
    /\ UNCHANGED <<switches, local, held, reader, popped, told, phantoms>>

\* An operation on the switch it has, or remove_switch().
Operate ==
    /\ app.pc = "idle" /\ held # Nil
    /\ \E r \in Operations(local[held]) \cup {RemoveRequest(local[held].name)} : Serve(r)
    /\ UNCHANGED <<clientVars, phantoms>>

\* subscribe_updates(), unsubscribe_updates(): a callback that reads the switch.
Subscribe ==
    /\ app.pc = "idle" /\ held # Nil
    /\ told' = IF held \in DOMAIN told THEN Without(told, held)
               ELSE With(told, held, View(local[held]))
    /\ UNCHANGED <<serverVars, switches, local, lock, app, held, reader, popped, phantoms>>

OperateRemoveAlias(a) ==
    /\ app.pc = "idle" /\ held # Nil
    /\ Serve(RemoveAliases(local[held], {a}))
    /\ UNCHANGED <<clientVars, phantoms>>

--------------------------------------------------------------------------
(* The reader's thread *)

\* _get_mapped_switch(), with the lock: a switch that is not known is made, a removed one
\* forgotten.
Mapped ==
    LET m == Head(stream)
        n == m.key
    IN
    /\ stream # <<>> /\ reader.msg = Nil /\ lock = Nil
    /\ stream' = Tail(stream)
    /\ \/ /\ m.action \in {"ADDITION", "UPDATE"} /\ n \in DOMAIN switches
          /\ reader' = [switch |-> switches[n], msg |-> m]
          /\ UNCHANGED <<switches, local, popped>>
       \/ /\ m.action \in {"ADDITION", "UPDATE"} /\ n \notin DOMAIN switches
          /\ NextHandle \in Handles
          /\ local' = With(local, NextHandle, Blank(n))
          /\ switches' = With(switches, n, NextHandle)
          /\ reader' = [switch |-> NextHandle, msg |-> m]
          /\ UNCHANGED popped
       \/ /\ m.action = "REMOVAL" /\ n \in DOMAIN switches
          /\ switches' = Without(switches, n)
          /\ popped' = popped \cup {switches[n]}
          /\ reader' = [switch |-> switches[n], msg |-> m]
          /\ UNCHANGED local
       \/ /\ m.action = "REMOVAL" /\ n \notin DOMAIN switches
          /\ UNCHANGED <<switches, local, reader, popped>>
    /\ UNCHANGED <<board, requests, lock, app, held, told, phantoms>>

\* _invoke_callbacks()
Shown(h, s) == IF h \in DOMAIN told THEN [told EXCEPT ![h] = View(s)] ELSE told

\* Fault: an update of the specification adds what it says.
UpdateMerged ==
    LET old == local[reader.switch]
        s   == IF reader.msg.field = "specification"
               THEN [old EXCEPT !.spec.aliases = @ \cup reader.msg.value.aliases]
               ELSE [old EXCEPT !.status = reader.msg.value]
    IN
    /\ reader.msg # Nil
    /\ local' = [local EXCEPT ![reader.switch] = s]
    /\ told' = Shown(reader.switch, s)
    /\ reader' = [switch |-> Nil, msg |-> Nil]
    /\ UNCHANGED <<serverVars, switches, lock, app, held, popped, phantoms>>

\* _update_specification(), _update_status(): CopyFrom(), without the lock.
Update ==
    LET old == local[reader.switch]
        s   == IF reader.msg.field = "specification" THEN [old EXCEPT !.spec = reader.msg.value]
               ELSE [old EXCEPT !.status = reader.msg.value]
    IN
    /\ reader.msg # Nil
    /\ local' = [local EXCEPT ![reader.switch] = s]
    /\ told' = Shown(reader.switch, s)
    /\ reader' = [switch |-> Nil, msg |-> Nil]
    /\ UNCHANGED <<serverVars, switches, lock, app, held, popped, phantoms>>

--------------------------------------------------------------------------
ProxyNext ==
    \/ Others \/ (\E n \in SwitchNames : GetOrAdd(n)) \/ AddSwitch \/ Register \/ SetInitial \/ Operate \/ Subscribe
    \/ (\E a \in SwitchNames : OperateRemoveAlias(a))
    \/ Mapped \/ Update

\* Both threads run and the server answers; nobody has to call.
ProxyFairness ==
    /\ WF_proxyVars(AddSwitch) /\ WF_proxyVars(Register) /\ WF_proxyVars(SetInitial)
    /\ WF_proxyVars(Mapped) /\ WF_proxyVars(Update)

ProxySpec == ProxyInit /\ [][ProxyNext]_proxyVars /\ ProxyFairness

--------------------------------------------------------------------------
(* Properties *)

AtRest == stream = <<>> /\ reader.msg = Nil /\ app.pc = "idle"

\* Once everything was received, the board shows each switch of the server as it is, and
\* no other (but for names that the server knew as aliases), however the application's
\* own additions fell between the signals; callbacks have been shown the same.
BoardFollows ==
    AtRest => /\ DOMAIN board \subseteq DOMAIN switches
              /\ DOMAIN switches \subseteq DOMAIN board \cup phantoms
              /\ \A n \in DOMAIN board : View(local[switches[n]]) = View(board[n])
              /\ \A h \in DOMAIN told : told[h] = View(local[h])

\* The switch that get_or_add_switch() returned is the one that signals reach, until its
\* removal has been received.
HeldIsRegistered ==
    held = Nil \/ held \in popped \/ held \in Range(switches)

\* The board is the server's, and so is the switch that the application works with.
BoardIsServers == BoardFollows /\ HeldIsRegistered

\* What was sent is received, as long as there are requests and objects left in the model.
Exhausted == requests = MaxRequests \/ NextHandle \notin Handles
SignalsReceived == stream # <<>> ~> (stream = <<>> \/ Exhausted)

==============================================================================
