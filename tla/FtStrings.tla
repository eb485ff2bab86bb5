------------------------------ MODULE FtStrings ------------------------------
(***************************************************************************)
(* The redundant strings of one controller running FtRuntime's control     *)
(* cycle.  Each string owns a sync shard: what its SlateSharerReceivers    *)
(* last received from every string, its SlateCombiner's metrics and        *)
(* output, and the control state computed from them.  The strings meet     *)
(* twice in a cycle, when FtSync starts it (StartCycle) and in the share   *)
(* and reshare phases (Exchange); between the two each runs on its own and *)
(* may crash at any point.                                                 *)
(*                                                                         *)
(* FtSync, FtSimpleDataSharer, SlateSyncer and FtBootstrapper are not in   *)
(* the tree.  They are modelled by what FtRuntime needs of them: a common  *)
(* cycle; sharing that delivers a message to every string but a failing    *)
(* one; a shard comparison with the peers and, where it is enabled, a      *)
(* wholesale hotsync; synced while a peer agrees.                          *)
(***************************************************************************)
EXTENDS CombinerVote

CONSTANTS
    Reading(_),        \* the local inputs a string's hardware may deliver
    InitialRecord,     \* what a source slate holds before the first message
    ControlState,      \* abstract control states
    InitialControl,
    Law(_, _),         \* one cycle of control code: state, combined inputs
    Downselect,        \* the combiner copies one string's inputs wholesale
    Hotsync,           \* the program calls enable_hotsync, as DroneGncRuntime does
    SinglePeerHotsync, \* single_peer_hotsync_enabled
    NoOffer, NoMessage \* what is missing when a string offered or shared nothing

ASSUME StringsAssumption ==
    /\ NumSources = 3
    /\ \A s \in Source : Reading(s) \subseteq Record
    /\ InitialRecord \in Record
    /\ InitialControl \in ControlState
    /\ \A c \in ControlState, r \in Record : Law(c, r) \in ControlState
    /\ Downselect \in BOOLEAN
    /\ {Hotsync, SinglePeerHotsync} \subseteq BOOLEAN

String == Source

VARIABLES
    pc,      \* where in FtRuntime::dispatch each string is; "down" if not running
    seq,     \* sequence number of the cycle's sharing messages
    shard,   \* the sync shard of each string
    synced,  \* bootstrapper->is_synced()
    sent,    \* the message each string shares this cycle
    heard,   \* whose messages each string has after the reshare phase
    ran,     \* did the string run dispatch_synced this cycle
    offer,   \* shards offered by dispatch_share in this cycle
    seen,    \* shards the peers offered at the end of the previous cycle
    faulty   \* strings that failed and have not rejoined (the environment's budget)

vars == <<pc, seq, shard, synced, sent, heard, ran, offer, seen, faulty>>

Shard == [fresh : [String -> FreshReading], data : [String -> Record],
          last  : [String -> Freshness \cup {SeqDefault}],
          age   : [String -> 0..StaleThreshold],
          out   : Record, control : ControlState]

InitialShard ==
    [fresh   |-> [s \in String |-> 0],
     data    |-> [s \in String |-> InitialRecord],
     last    |-> [s \in String |-> SeqDefault],
     age     |-> [s \in String |-> StaleThreshold],
     out     |-> InitialRecord,
     control |-> InitialControl]

Offer == [synced : BOOLEAN, shard : Shard]
ASSUME NoneAssumption == NoOffer \notin Offer /\ NoMessage \notin Record

TypeOK ==
    /\ pc \in [String -> {"down", "idle", "early", "sharing", "check", "synced", "late"}]
    /\ seq \in Freshness
    /\ shard \in [String -> Shard]
    /\ synced \in [String -> BOOLEAN]
    /\ sent \in [String -> Record \cup {NoMessage}]
    /\ heard \in [String -> SUBSET String]
    /\ ran \in [String -> BOOLEAN]
    /\ offer \in [String -> Offer \cup {NoOffer}]
    /\ seen \in [String -> Offer \cup {NoOffer}]
    /\ faulty \subseteq String

Up == {s \in String : pc[s] # "down"}

Init ==
    /\ pc = [s \in String |-> "idle"]
    /\ seq \in Freshness
    /\ shard = [s \in String |-> InitialShard]
    /\ synced = [s \in String |-> FALSE]
    /\ sent = [s \in String |-> NoMessage]
    /\ heard = [s \in String |-> {}]
    /\ ran = [s \in String |-> FALSE]
    /\ offer = [s \in String |-> [synced |-> FALSE, shard |-> InitialShard]]
    /\ seen = [s \in String |-> NoOffer]
    /\ faulty = {}

-----------------------------------------------------------------------------
(* The barriers: FtSync and the data sharer's time-limited phases.         *)

(***************************************************************************)
(* ft_sync->dispatch: a new cycle, once every running string is done with  *)
(* the previous one.  Sequence numbers of successive cycles differ.        *)
(***************************************************************************)
StartCycle ==
    /\ Up # {}
    /\ \A s \in Up : pc[s] = "idle"
    /\ pc' = [s \in String |-> IF s \in Up THEN "early" ELSE "down"]
    /\ seq' \in Freshness \ {seq}
    /\ seen' = offer
    /\ offer' = [s \in String |-> NoOffer]
    /\ sent' = [s \in String |-> NoMessage]
    /\ heard' = [s \in String |-> {}]
    /\ ran' = [s \in String |-> FALSE]
    /\ UNCHANGED <<shard, synced, faulty>>

(***************************************************************************)
(* data_sharer->dispatch: the reshare phase gives every running string the *)
(* messages of all of them, except that one failing string may miss some.  *)
(* The phases end by the clock: a string that is starting up is not waited *)
(* for.                                                                    *)
(***************************************************************************)
Senders == {s \in String : sent[s] # NoMessage}
InCycle == {s \in Up : pc[s] # "idle"}

Exchange ==
    /\ InCycle # {}
    /\ \A s \in InCycle : pc[s] = "sharing"
    /\ pc' = [s \in String |-> IF s \in InCycle THEN "check" ELSE pc[s]]
    /\ \/ /\ heard' = [s \in String |-> IF s \in InCycle THEN Senders ELSE {}]
          /\ UNCHANGED faulty
       \/ \E s \in InCycle, missed \in SUBSET Senders :
            /\ missed # {}
            /\ faulty \subseteq {s}
            /\ heard' = [t \in String |->
                            CASE t = s            -> Senders \ missed
                              [] t \in InCycle \ {s} -> Senders
                              [] t \notin InCycle -> {}]
            /\ faulty' = {s}
    /\ UNCHANGED <<seq, shard, synced, sent, ran, offer, seen>>

-----------------------------------------------------------------------------
(* The steps of one string's cycle.                                        *)

(***************************************************************************)
(* slate_syncer->dispatch_process: a string that is not synced takes over  *)
(* the shard a synced peer offered, if hotsync is enabled and the peers'   *)
(* offers it needs are in and agree.                                       *)
(***************************************************************************)
HotsyncSources(s) ==
    LET synch == {p \in String \ {s} : seen[p] # NoOffer /\ seen[p].synced}
    IN  {p \in synch : /\ Hotsync
                       /\ \A q \in synch : seen[q].shard = seen[p].shard
                       /\ SinglePeerHotsync \/ Cardinality(synch) = 2}

Bug_HotsyncedControlOnly(s) ==
    IF synced[s] \/ HotsyncSources(s) = {}
    THEN shard[s]
    ELSE [shard[s] EXCEPT !.control = seen[Lowest(HotsyncSources(s))].shard.control]
Hotsynced(s) ==
    IF synced[s] \/ HotsyncSources(s) = {}
    THEN shard[s]
    ELSE seen[Lowest(HotsyncSources(s))].shard

(***************************************************************************)
(* dispatch_nonsynced_early up to the sharing of the local inputs.         *)
(***************************************************************************)
Bug_EarlyWithoutSyncer(s) ==
    /\ pc[s] = "early"
    /\ \E r \in Reading(s) : sent' = [sent EXCEPT ![s] = r]
    /\ pc' = [pc EXCEPT ![s] = "sharing"]
    /\ UNCHANGED <<seq, shard, synced, heard, ran, offer, seen, faulty>>
Early(s) ==
    /\ pc[s] = "early"
    /\ shard' = [shard EXCEPT ![s] = Hotsynced(s)]
    /\ \E r \in Reading(s) : sent' = [sent EXCEPT ![s] = r]
    /\ pc' = [pc EXCEPT ![s] = "sharing"]
    /\ UNCHANGED <<seq, synced, heard, ran, offer, seen, faulty>>

(***************************************************************************)
(* slate_syncer->dispatch_check, then bootstrapper->dispatch: synced while *)
(* some peer's shard is the same.  A string without any peer keeps what it *)
(* was.                                                                    *)
(***************************************************************************)
Bug_AgreesOnControlOnly(s) ==
    \E p \in String \ {s} : seen[p] # NoOffer /\ seen[p].shard.control = shard[s].control
Agrees(s) == \E p \in String \ {s} : seen[p] # NoOffer /\ seen[p].shard = shard[s]
Alone(s) == \A p \in String \ {s} : seen[p] = NoOffer

Bug_BootstrapForever(s) == synced[s] \/ Agrees(s)
Bug_BootstrapAllPeers(s) ==
    \A p \in String \ {s} : seen[p] = NoOffer \/ seen[p].shard = shard[s]
Bootstrap(s) == Agrees(s) \/ (Alone(s) /\ synced[s])

Check(s) ==
    /\ pc[s] = "check"
    /\ synced' = [synced EXCEPT ![s] = Bootstrap(s)]
    /\ faulty' = IF Bootstrap(s) /\ heard[s] = Senders THEN faulty \ {s} ELSE faulty
    /\ pc' = [pc EXCEPT ![s] = IF Bootstrap(s) THEN "synced" ELSE "late"]
    /\ UNCHANGED <<seq, shard, sent, heard, ran, offer, seen>>

(***************************************************************************)
(* control->dispatch_synced on shard x: the receivers store this cycle's   *)
(* messages (cycle_delay 0), combine() votes, the control code runs.       *)
(***************************************************************************)
AfterControl(x, msgs, f) ==
    LET fresh == [p \in String |-> IF p \in DOMAIN msgs THEN f ELSE x.fresh[p]]
        data  == [p \in String |-> IF p \in DOMAIN msgs THEN msgs[p] ELSE x.data[p]]
        age   == [p \in String |-> NextAge(fresh[p], x.last[p], x.age[p], AnySequence)]
        out   == Vote(data, {p \in String : Fresh(age[p])}, x.out, Downselect)
    IN  [fresh   |-> fresh,
         data    |-> data,
         last    |-> [p \in String |-> NextLast(fresh[p], x.last[p], AnySequence)],
         age     |-> age,
         out     |-> out,
         control |-> Law(x.control, out)]

DispatchSynced(s) ==
    /\ pc[s] = "synced"
    /\ shard' = [shard EXCEPT ![s] = AfterControl(@, [p \in heard[s] |-> sent[p]], seq)]
    /\ ran' = [ran EXCEPT ![s] = TRUE]
    /\ pc' = [pc EXCEPT ![s] = "late"]
    /\ UNCHANGED <<seq, synced, sent, heard, offer, seen, faulty>>

(***************************************************************************)
(* dispatch_nonsynced_late: slate_syncer->dispatch_share, after all        *)
(* control code has run.                                                   *)
(***************************************************************************)
Late(s) ==
    /\ pc[s] = "late"
    /\ offer' = [offer EXCEPT ![s] = [synced |-> synced[s], shard |-> shard[s]]]
    /\ pc' = [pc EXCEPT ![s] = "idle"]
    /\ UNCHANGED <<seq, shard, synced, sent, heard, ran, seen, faulty>>

-----------------------------------------------------------------------------
(* Failures: one string at a time.                                         *)

Crash(s) ==
    /\ s \in Up
    /\ faulty \subseteq {s}
    /\ pc' = [pc EXCEPT ![s] = "down"]
    /\ faulty' = {s}
    /\ UNCHANGED <<seq, shard, synced, sent, heard, ran, offer, seen>>

(***************************************************************************)
(* A restarted process has a freshly built Slate and is not synced.  It    *)
(* joins at the next cycle.                                                *)
(***************************************************************************)
Restart(s) ==
    /\ pc[s] = "down"
    /\ pc' = [pc EXCEPT ![s] = "idle"]
    /\ shard' = [shard EXCEPT ![s] = InitialShard]
    /\ synced' = [synced EXCEPT ![s] = FALSE]
    /\ ran' = [ran EXCEPT ![s] = FALSE]
    /\ UNCHANGED <<seq, sent, heard, offer, seen, faulty>>

Step(s) == Early(s) \/ Check(s) \/ DispatchSynced(s) \/ Late(s)

Next ==
    \/ StartCycle
    \/ Exchange
    \/ \E s \in String : Step(s) \/ Crash(s) \/ Restart(s)

Spec == Init /\ [][Next]_vars

(***************************************************************************)
(* FtRuntime::dispatch returns nano_t_min, so the EventLoop calls it again *)
(* at once, and FtSync and the sharing phases end by the clock: the strings *)
(* keep stepping.  The barriers turn that into progress of every running   *)
(* string.  Failures and restarts are not promised.                        *)
(***************************************************************************)
Progress == StartCycle \/ Exchange \/ \E s \in String : Step(s)

FairSpec == Spec /\ WF_vars(Progress)

-----------------------------------------------------------------------------
(***************************************************************************)
(* Two strings about to run control code start from the same sync shard,   *)
(* whatever failed before.                                                 *)
(***************************************************************************)
ControlStartsFromOneState ==
    \A s, t \in String :
        pc[s] = "synced" /\ pc[t] = "synced" => shard[s] = shard[t]

(***************************************************************************)
(* Strings that ran control on the same messages hold the same sync shard  *)
(* for the rest of the cycle: "all three units hold an identical,          *)
(* agreed-upon input set", metrics and control state included, also when   *)
(* one of them joined by hotsync on this very cycle.                       *)
(***************************************************************************)
ControlAgreement ==
    \A s, t \in String :
        (/\ {pc[s], pc[t]} \subseteq {"late", "idle"}
         /\ ran[s] /\ ran[t]
         /\ heard[s] = heard[t]) => shard[s] = shard[t]

(***************************************************************************)
(* With at most one string failing at a time, every cycle that shared      *)
(* inputs ends with control code run by two strings or more ("Loss of any  *)
(* single string never interrupts control").                               *)
(***************************************************************************)
OneLossNeverInterrupts ==
    (/\ \A s \in Up : pc[s] = "idle"
     /\ \E s \in String : sent[s] # NoMessage)
        => Cardinality({s \in String : ran[s]}) >= 2

(***************************************************************************)
(* A string that has not failed never drops out of sync, whatever the      *)
(* failing one offers or shares.                                           *)
(***************************************************************************)
HealthyStaysSynced ==
    [][\A s \in String \ faulty' : synced[s] => synced'[s]]_vars

\* Control code starts from, and leaves, one state on all strings that run it.
StringsAgree == ControlStartsFromOneState /\ ControlAgreement

\* One failing string costs neither the control of a cycle nor a healthy string's sync.
OneLossIsHarmless == []OneLossNeverInterrupts /\ HealthyStaysSynced

(***************************************************************************)
(* Where hotsync is enabled, a running string is never out of sync for     *)
(* good: it gets back in (or dies trying), as DroneFtRuntime counts on     *)
(* ("It will just hotsync in later when it does come up").  A program that *)
(* does not enable it promises nothing: FtRuntime's comment says the       *)
(* flight computers are such, and DroneGncRuntime enables it on them.      *)
(***************************************************************************)
RejoinsEventually ==
    Hotsync => \A s \in String : []<>(synced[s] \/ pc[s] = "down")
=============================================================================
