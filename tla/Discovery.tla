------------------------------ MODULE Discovery -------------------------------
(***************************************************************************)
(* How the service finds its SmartShunt, one D-Bus call at a time.  A      *)
(* discovery lists the battery services and asks each for its product;     *)
(* devices are plugged in, removed and plugged in elsewhere, calls time    *)
(* out, the daemon and the process restart in between.  VirtualBattery     *)
(* takes a discovery as one step and every service as one device for ever; *)
(* this module shows what that leaves out.                                 *)
(***************************************************************************)
EXTENDS BusConnection, Sequences, FiniteSets, SequencesExt

CONSTANTS Ports,              \* suffixes of battery services, numbers in name order
          Chains,             \* those that are configured chains
          Devices, Shunts,    \* the hardware, and what has "shunt" in its product name
          ShuntIndex,         \* --smartshunt-index
          DiscoveryInterval,  \* seconds between two late discoveries
          MaxEvents,          \* bound on disturbances
          Nothing             \* no device, no name (Python's None)

ASSUME DiscoveryAssumption == /\ Ports \subseteq Nat /\ IsFiniteSet(Ports)
                              /\ Chains \subseteq Ports
                              /\ Shunts \subseteq Devices
                              /\ ShuntIndex \in Int
                              /\ DiscoveryInterval \in Nat /\ MaxEvents \in Nat
                              /\ Nothing \notin Ports \cup Devices

VARIABLES owner,       \* owner[p]: the device that owns the name of port p, or Nothing
          pc,          \* "down", "list", "product", "choose", "register", "idle", "shunt", "chain"
          booting,     \* the constructor runs: _chain_suffixes does not exist yet
          selected,    \* smartshunt_suffix, or Nothing
          discWait,    \* seconds until the next late discovery is allowed
          asking,      \* the listed names whose product has not been asked for
          candidates,  \* the names that answered with a shunt's product
          sampled,     \* the device the shunt's values of the last poll came from, or Nothing
          events,      \* disturbances so far
          quiet,       \* history: none of them since the discovery began
          wasShunt     \* history: the names a shunt has owned since the discovery began

discovery == <<asking, candidates, quiet, wasShunt>>
vars == <<connection, owner, pc, booting, selected, discWait, discovery, sampled, events>>

OwnedByShunt == {p \in Ports : owner[p] \in Shunts}

\* A device has one name.
Distinct(owners) == \A p, q \in Ports : owners[p] = owners[q] => p = q \/ owners[p] = Nothing

Init == /\ owner \in {o \in [Ports -> Devices \cup {Nothing}] : Distinct(o)}
        /\ daemon \in BOOLEAN /\ link = "none" /\ attemptAge = 0
        /\ pc = "down"
        /\ booting = TRUE
        /\ selected = Nothing
        /\ discWait = 0
        /\ asking = <<>> /\ candidates = <<>>
        /\ quiet = TRUE /\ wasShunt = {}
        /\ sampled = Nothing
        /\ events = 0
-------------------------------------------------------------------------------
\* The constructor connects and discovers; nothing throttles it.
Boot == /\ pc = "down"
        /\ Connects
        /\ booting' = TRUE
        /\ pc' = "list"
        /\ UNCHANGED <<daemon, owner, selected, discWait, discovery, sampled, events>>

\* _rediscover_missing_smartshunt: only while none is selected, and throttled.
Due == selected = Nothing /\ discWait = 0

StartPoll == /\ pc = "idle"
             /\ pc' = IF Due THEN "list" ELSE "shunt"
             /\ discWait' = IF Due THEN DiscoveryInterval ELSE discWait
             /\ UNCHANGED <<connection, owner, booting, selected, discovery, sampled, events>>

\* A call on a live connection answers, or uses up one of the disturbances.
Answered == events' = events
TimesOut == events < MaxEvents /\ events' = events + 1

\* Neither call of a discovery drops a connection that turns out to be dead.
KeepsLink == AfterCall(FALSE) /\ UNCHANGED daemon

InOrder(names) ==
    CHOOSE seq \in [1..Cardinality(names) -> names] :
        \A i, j \in DOMAIN seq : i < j => seq[i] < seq[j]

\* list_battery_services: the names on the bus in order, or none.
List ==
    /\ pc = "list"
    /\ KeepsLink
    /\ \/ /\ Answered
          /\ asking' = IF Ensured # "live" THEN <<>>
                       ELSE InOrder({p \in Ports : owner[p] # Nothing})
          /\ quiet' = TRUE
       \/ /\ TimesOut
          /\ asking' = <<>>
          /\ quiet' = FALSE
    /\ candidates' = <<>>
    /\ wasShunt' = OwnedByShunt
    /\ pc' = IF asking' = <<>> THEN "choose" ELSE "product"
    /\ UNCHANGED <<owner, booting, selected, discWait, sampled>>

\* Mutant: a service that does not answer is taken for a shunt.
MutIsCandidate(port, answers) ==
    ~(answers /\ Ensured = "live" /\ owner[port] \in Devices \ Shunts)

\* The service answers, and its product is a shunt.
IsCandidate(port, answers) == answers /\ Ensured = "live" /\ owner[port] \in Shunts

\* get_product_name of the next name.
AskProduct ==
    /\ pc = "product"
    /\ KeepsLink
    /\ \E answers \in BOOLEAN :
          /\ IF answers THEN Answered ELSE TimesOut
          /\ candidates' = IF IsCandidate(Head(asking), answers)
                           THEN Append(candidates, Head(asking)) ELSE candidates
          /\ quiet' = (quiet /\ answers)
    /\ asking' = Tail(asking)
    /\ pc' = IF asking' = <<>> THEN "choose" ELSE "product"
    /\ UNCHANGED <<owner, booting, selected, discWait, wasShunt, sampled>>

Excluded == IF booting THEN {} ELSE Chains

\* What is left of a sequence without the elements of a set.
Without(names, excluded) ==
    FoldLeft(LAMBDA kept, p : IF p \in excluded THEN kept ELSE Append(kept, p), <<>>, names)

\* Mutant: the index counts from one.
MutFound == LET free == Without(candidates, Excluded)
            IN  IF ShuntIndex \in DOMAIN free THEN free[ShuntIndex] ELSE Nothing

\* The candidate with the configured index that is not a known chain.
Found == LET free == Without(candidates, Excluded)
         IN  IF ShuntIndex + 1 \in DOMAIN free THEN free[ShuntIndex + 1] ELSE Nothing

\* In the constructor a shunt that is a chain raises ValueError and ends the process.
Choose == /\ pc = "choose"
          /\ pc' = IF ~booting THEN "shunt"
                   ELSE IF Found \in Chains THEN "down" ELSE "register"
          /\ selected' = IF booting /\ Found \in Chains THEN Nothing ELSE Found
          /\ UNCHANGED <<connection, owner, booting, discWait, discovery, sampled, events>>

\* VeDbusService of the own name needs the daemon.
Register == /\ pc = "register"
            /\ pc' = IF daemon THEN "idle" ELSE "down"
            /\ selected' = IF daemon THEN selected ELSE Nothing
            /\ booting' = FALSE
            /\ UNCHANGED <<connection, owner, discWait, discovery, sampled, events>>

\* _read_source of the shunt, if there is one; its call drops a dead connection.
ReadShunt ==
    /\ pc = "shunt"
    /\ pc' = "chain"
    /\ \/ /\ selected = Nothing
          /\ sampled' = Nothing
          /\ UNCHANGED <<connection, events>>
       \/ /\ selected # Nothing
          /\ AfterCall(Breaks) /\ UNCHANGED daemon
          /\ \/ /\ Answered
                /\ sampled' = IF Ensured = "live" THEN owner[selected] ELSE Nothing
             \/ /\ TimesOut
                /\ sampled' = Nothing
    /\ UNCHANGED <<owner, booting, selected, discWait, discovery>>

\* _read_source of the chains, of which there is at least one.
ReadChains == /\ pc = "chain"
              /\ pc' = "idle"
              /\ AfterCall(Breaks) /\ UNCHANGED daemon
              /\ UNCHANGED <<owner, booting, selected, discWait, discovery, sampled, events>>

Discover == List \/ AskProduct \/ Choose
Poll == StartPoll \/ ReadShunt \/ ReadChains
Service == Boot \/ Discover \/ Register \/ Poll
-------------------------------------------------------------------------------
(***************************************************************************)
(* The hardware, the daemon, the supervisor and the clock.                 *)
(***************************************************************************)
Disturbs == events < MaxEvents /\ events' = events + 1 /\ quiet' = FALSE
Undisturbed == <<pc, booting, selected, discWait, asking, candidates, sampled>>

\* A name appears, disappears or changes its owner.
Plug(port, device) ==
    /\ Disturbs
    /\ owner[port] # device
    /\ owner' = [owner EXCEPT ![port] = device]
    /\ Distinct(owner')
    /\ wasShunt' = wasShunt \cup OwnedByShunt'
    /\ UNCHANGED <<connection, Undisturbed>>

DaemonStops == /\ Disturbs
               /\ LinkBreaks
               /\ UNCHANGED <<owner, wasShunt, Undisturbed>>

DaemonStarts == /\ DaemonReturns
                /\ UNCHANGED <<owner, events, quiet, wasShunt, Undisturbed>>

\* The process ends at any point; the supervisor starts another.
Stop == /\ pc # "down"
        /\ Disturbs
        /\ pc' = "down"
        /\ selected' = Nothing /\ discWait' = 0 /\ sampled' = Nothing
        /\ asking' = <<>> /\ candidates' = <<>>
        /\ UNCHANGED <<connection, owner, booting, wasShunt>>

Tick == /\ attemptAge' = Older(attemptAge, ReconnectInterval)
        /\ discWait' = IF discWait = 0 THEN 0 ELSE discWait - 1
        /\ UNCHANGED <<daemon, link, owner, pc, booting, selected, discovery, sampled, events>>

Environment == \/ \E port \in Ports, device \in Devices \cup {Nothing} : Plug(port, device)
               \/ DaemonStops \/ DaemonStarts \/ Stop \/ Tick

Next == Service \/ Environment
Spec == Init /\ [][Next]_vars

\* Polling goes on, the supervisor restarts the process, and time passes.
Fairness == WF_vars(Service) /\ WF_vars(Tick)
FairSpec == Spec /\ Fairness
-------------------------------------------------------------------------------
TypeOK == /\ ConnectionType
          /\ owner \in [Ports -> Devices \cup {Nothing}]
          /\ pc \in {"down", "list", "product", "choose", "register", "idle", "shunt", "chain"}
          /\ booting \in BOOLEAN
          /\ selected \in (Ports \ Chains) \cup {Nothing}
          /\ discWait \in 0..DiscoveryInterval
          /\ asking \in Seq(Ports) /\ candidates \in Seq(Ports)
          /\ sampled \in Devices \cup {Nothing}
          /\ events \in 0..MaxEvents
          /\ quiet \in BOOLEAN
          /\ wasShunt \subseteq Ports

\* What VirtualBattery!Discover takes as one step.
OneStep(excluded) ==
    LET shunts == OwnedByShunt \ excluded
        chosen == {p \in shunts : Cardinality({q \in shunts : q < p}) = ShuntIndex}
    IN  IF link # "live" \/ chosen = {} THEN Nothing ELSE CHOOSE p \in chosen : TRUE

\* A discovery that nothing disturbs finds what a look at the whole bus in one instant
\* would find: calls one after the other make no difference then.
UndisturbedIsOneStep == pc = "choose" /\ quiet => Found = OneStep(Excluded)

\* Whatever happens meanwhile, the selected name belonged to a shunt at some instant of
\* the discovery that selected it: no BMS, and no service that failed to answer.
SelectedWasShunt == [][selected' # selected /\ selected' # Nothing => selected' \in wasShunt]_vars

\* Once the daemon stays up, a broken connection is noticed and replaced, although no
\* call of a discovery notices one.
Reconnects == <>[]daemon => <>[](link = "live")

(***************************************************************************)
(* "Identify hardware by its product, not a changeable USB port name"      *)
(* (dbus-virtual-battery.py:448), and the discovery "never substitutes a   *)
(* random battery" (README.md:181): what is read as the shunt is a shunt.  *)
(***************************************************************************)
ReadsAShunt == sampled # Nothing => sampled \in Shunts
===============================================================================
