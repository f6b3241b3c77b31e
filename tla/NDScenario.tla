------------------------------ MODULE NDScenario ------------------------------
(***************************************************************************)
(* The RRND neighbour-discovery test harness of src/tools/rrnd_test: a    *)
(* TestScenario run replays a contact plan against one RRND instance per  *)
(* satellite (rrnd_proxy in front of uPCN, outside this repository),      *)
(* each reached through an NDClient's ZMQ REQ socket.  The harness is one *)
(* thread; its only interleaving is with the RRND instances, at the        *)
(* socket: a request is queued to the instance, which answers whenever it  *)
(* gets to it, and recv_string gives up after RCVTIMEO.                    *)
(*                                                                         *)
(* The REQ socket is a strict send/recv alternation: after a recv that     *)
(* timed out it stays in the receiving state, so every later send_json     *)
(* raises ZMQError (EFSM) and _request returns its default {}.             *)
(*                                                                         *)
(* The contact plan (cplan_from_scenario, an orbit computation) is an      *)
(* input; times are whole seconds; the statistics, logging and the         *)
(* observation records the harness only prints are left out.  The metric   *)
(* exchange (--metricsexchange) is not modelled.                           *)
(***************************************************************************)
EXTENDS Integers, Sequences, SequencesExt, TLC

CONSTANTS
    SatList,        \* the ids of sd["satellites"], in order; one client each
    Period,         \* beacon_period of each ground station (a function)
    Plan,           \* the contact list: records [gs, sat, start, end, prob]
    T0,             \* start_time of the scenario
    MaxRuns,        \* the largest --runs
    Results,        \* result codes an RRND instance answers with
    Predictions     \* what a successful get_gs reports (see QueryOutcome)

Sats == ToSet(SatList)
Stations == DOMAIN Period

\* RRNDStatus.UNCHANGED and RRNDStatus.FAILED.
UNCHANGED_ == 0
FAILED == 8

\* _replay_contact_list's OFFSET of the prediction request.
OFFSET == 300

ASSUME /\ \A c \in ToSet(Plan) : c.gs \in Stations /\ c.sat \in Sats
       /\ \A g \in Stations : Period[g] \in 1..60
       /\ Results \subseteq {UNCHANGED_, FAILED}
       /\ Predictions \subseteq {"invalid", "none", "early", "late"}

\* Mutant of SortedPlan: the contacts replayed in the plan's order.
UnsortedPlan == Plan

\* sorted(contact_list, key=lambda c: c[2]): by start time; Python's sort
\* is stable, so contacts that start together keep the plan's order.
SortedPlan ==
    LET tagged == [i \in DOMAIN Plan |-> [c |-> Plan[i], i |-> i]]
        before(a, b) == a.c.start < b.c.start \/ (a.c.start = b.c.start /\ a.i < b.i)
    IN  [i \in DOMAIN Plan |-> SortSeq(tagged, before)[i].c]

\* random.random() > prob: a contact with prob < 1 may be missed; random()
\* is below 1.0, so one with prob 1 never is.  prob is in percent.
MissChoices(prob) == IF prob < 100 THEN BOOLEAN ELSE {FALSE}

\* _replay_contact: the first beacon is the first point of the station's
\* grid T0 + k * period strictly after the start.
FirstBeacon(g, start) == start - ((start - T0) % Period[g]) + Period[g]

-----------------------------------------------------------------------------
(* Requests and replies                                                    *)

NoReq == [cmd |-> "none"]

\* The request the harness makes at pc, with the stations' beacon_seqnum
\* seqs; `at` tells two requests with the same content apart.  (The TLE,
\* bitrates and availability of a beacon are data.)
Request(p, seqs) ==
    LET c == SortedPlan[p.i]
    IN  CASE p.stage = "connect"   -> [cmd |-> "test", sat |-> SatList[p.i], at |-> p]
          [] p.stage = "resetperf" -> [cmd |-> "reset_perf", sat |-> SatList[p.i], at |-> p]
          [] p.stage = "reset"     -> [cmd |-> "reset", sat |-> SatList[p.i], at |-> p]
          [] p.stage = "init"      -> [cmd |-> "init", sat |-> SatList[p.i], at |-> p]
          [] p.stage = "storeperf" -> [cmd |-> "store_perf", sat |-> SatList[p.i], at |-> p]
          [] p.stage = "predict"   -> [cmd |-> "next_contact", sat |-> c.sat, gs |-> c.gs,
                                       time |-> c.start - OFFSET, at |-> p]
          [] p.stage = "query"     -> [cmd |-> "get_gs", sat |-> c.sat, gs |-> c.gs, at |-> p]
          [] p.stage = "beacon"    -> [cmd |-> "process", sat |-> c.sat, gs |-> c.gs,
                                       seq |-> seqs[c.gs], time |-> p.t, at |-> p]

\* The replies an RRND instance may give: {"result": r}, and for get_gs
\* the "gs" object when it succeeded.
Replies(r) ==
    {[to |-> r, result |-> x, pred |-> "absent"] :
        x \in IF r.cmd = "get_gs" THEN Results \ {UNCHANGED_} ELSE Results}
    \cup {[to |-> r, result |-> UNCHANGED_, pred |-> p] :
            p \in IF r.cmd = "get_gs" /\ UNCHANGED_ \in Results THEN Predictions ELSE {}}

\* No "result" key: a result code no instance uses.
ABSENT == -1

\* The default {} that _request returns on a ZMQError.
Default == [to |-> NoReq, result |-> ABSENT, pred |-> "absent"]

\* `reply == {"result": RRNDStatus.UNCHANGED}` of is_connected,
\* send_resetperf, send_reset, send_tle and send_storeperf.
IsUnchanged(res) == res.result = UNCHANGED_ /\ res.pred = "absent"

-----------------------------------------------------------------------------
VARIABLES
    runs,       \* the run count (args.runs, or the scenario's default)
    noReset,    \* --skiprestart: NDClient(no_reset=True)
    pc,         \* where the harness is: [stage, run, i, t, exc]
    waiting,    \* the request the harness waits for in recv_string, or NoReq
    sock,       \* each client's REQ socket: "send" or "recv" state
    inbox,      \* requests queued to each RRND instance
    outbox,     \* replies queued to each client
    gsState,    \* per station and satellite: the GroundStation's dicts
    seqnum,     \* GroundStation.beacon_seqnum
    lastBeacon, \* per RRND instance: station and time of the last beacon
    taken,      \* history: the last request answered and its reply
    lost,       \* history: a request of this client got the default {}
    regress     \* history: two beacons an instance got with falling times

vars == <<runs, noReset, pc, waiting, sock, inbox, outbox, gsState, seqnum,
          lastBeacon, taken, lost, regress>>

\* A fresh GroundStation (a new scenario object per run): verified_once,
\* prediction_succeeded_once, last_prediction_in_the_future and
\* data["contacts"] are empty.
FreshGs == [g \in Stations |-> [s \in Sats |->
              [verified |-> FALSE, predicted |-> FALSE, early |-> FALSE, contact |-> FALSE]]]

NoBeacon == [gs |-> "none", time |-> "none"]

Init ==
    /\ runs \in 1..MaxRuns
    \* __main__ exits when --skiprestart is combined with several runs.
    /\ noReset \in IF runs = 1 THEN BOOLEAN ELSE {FALSE}
    /\ pc = [stage |-> "connect", run |-> 1, i |-> 1, t |-> 0, exc |-> "none"]
    /\ waiting = NoReq
    /\ sock = [s \in Sats |-> "send"]
    /\ inbox = [s \in Sats |-> <<>>]
    /\ outbox = [s \in Sats |-> <<>>]
    /\ gsState = FreshGs
    /\ seqnum = [g \in Stations |-> 0]
    /\ lastBeacon = [s \in Sats |-> NoBeacon]
    /\ taken = <<>>
    /\ lost = [s \in Sats |-> FALSE]
    /\ regress = [s \in Sats |-> <<>>]

-----------------------------------------------------------------------------
(* The harness after a request returned res: the code from the return of  *)
(* one _request to the next call of it, which runs without interruption.  *)

CrashWith(kind) == pc' = [pc EXCEPT !.stage = "crashed", !.exc = kind]

Contact(k) == SortedPlan[k]

\* The loop of _replay_contact_list moves on to contact k (or, after the
\* last one, _single_run's send_storeperf for every satellite).
ToContact(k) ==
    IF k <= Len(Plan) THEN [pc EXCEPT !.stage = "predict", !.i = k, !.t = 0]
    ELSE [pc EXCEPT !.stage = "storeperf", !.i = 1, !.t = 0]

\* run(): `if not all(c.is_connected() ...)` and the same for
\* send_resetperf raise Exception at the first client that fails.
AfterConnect(res) ==
    IF ~IsUnchanged(res) THEN CrashWith("Exception")
    ELSE pc' = IF pc.i < Len(SatList) THEN [pc EXCEPT !.i = @ + 1]
               ELSE [pc EXCEPT !.stage = "resetperf", !.i = 1]

AfterResetPerf(res) ==
    IF ~IsUnchanged(res) THEN CrashWith("Exception")
    ELSE pc' = IF pc.i < Len(SatList) THEN [pc EXCEPT !.i = @ + 1]
               ELSE [pc EXCEPT !.stage = "reset", !.i = 1]

\* Satellite.initialize_instance: send_reset, then send_tle; either
\* failing raises RuntimeError.  After the last satellite the contacts
\* are replayed.
AfterReset(ok) ==
    IF ~ok THEN CrashWith("RuntimeError")
    ELSE pc' = [pc EXCEPT !.stage = "init"]

AfterInit(res) ==
    IF ~IsUnchanged(res) THEN CrashWith("RuntimeError")
    ELSE pc' = IF pc.i < Len(SatList) THEN [pc EXCEPT !.stage = "reset", !.i = @ + 1]
               ELSE ToContact(1)

\* The prediction request: if it failed ("result" missing or FAILED) and a
\* prediction for this pair succeeded once, the log call's argument
\* hex(ret["result"]) raises KeyError on the default {}.
AfterPredict(res) ==
    LET c == Contact(pc.i)
    IN  IF res.result = ABSENT /\ gsState[c.gs][c.sat].predicted
        THEN CrashWith("KeyError")
        ELSE pc' = [pc EXCEPT !.stage = "query"]

\* The exception verify_and_store lets through, or "none":
\* response["gs"] is missing from {} and from a failed reply, a
\* successful one may fail the asserts on success, eid and
\* beacon_period ("invalid"), and data["contacts"][satid] is missing
\* until add_contact ran for the pair (after the first query).
QueryOutcome(res, st) ==
    CASE res.pred = "absent"  -> "KeyError"
      [] res.pred = "invalid" -> "AssertionError"
      [] ~st.contact          -> "KeyError"
      [] OTHER                -> "none"

\* Mutant of Caught: except AssertionError only.
CaughtAssertOnly == {"AssertionError"}

\* _query_and_check_gs_info: except (AssertionError, KeyError).
Caught == {"AssertionError", "KeyError"}

\* verify_response's bookkeeping when it returns: verified_once, and for
\* a next_prediction other than 0, last_prediction_in_the_future (the
\* prediction more than 1800 s before the contact: "early") and
\* prediction_succeeded_once.
Verified(st, pred) ==
    [st EXCEPT !.verified = TRUE,
               !.early = IF pred \in {"early", "late"} THEN pred = "early" ELSE @,
               !.predicted = @ \/ pred \in {"early", "late"}]

\* After query_gs: verification (an exception it lets through ends the
\* run), add_contact, the random miss, then the beacons of _replay_contact
\* from the first grid point after the start.
AfterQuery(res) ==
    LET c == Contact(pc.i)
        e == QueryOutcome(res, gsState[c.gs][c.sat])
    IN  IF e # "none" /\ e \notin Caught THEN CrashWith(e)
        ELSE \E miss \in MissChoices(c.prob) :
               pc' = IF miss \/ FirstBeacon(c.gs, c.start) > c.end THEN ToContact(pc.i + 1)
                     ELSE [pc EXCEPT !.stage = "beacon", !.t = FirstBeacon(c.gs, c.start)]

\* The station's dicts after the query: verify_response's bookkeeping if
\* it returned, and add_contact.
GsAfterQuery(res) ==
    LET c  == Contact(pc.i)
        st == gsState[c.gs][c.sat]
        st2 == IF QueryOutcome(res, st) = "none" THEN Verified(st, res.pred) ELSE st
    IN  [gsState EXCEPT ![c.gs][c.sat] = [st2 EXCEPT !.contact = TRUE]]

\* The while loop of _replay_contact: cur_time += beacon_period while
\* cur_time <= end.
AfterBeacon(res) ==
    LET c == Contact(pc.i)
    IN  pc' = IF pc.t + Period[c.gs] <= c.end THEN [pc EXCEPT !.t = @ + Period[c.gs]]
              ELSE ToContact(pc.i + 1)

\* Mutant of AfterStorePerf: the run loop goes one run too far.
AfterStorePerfPastLast ==
    pc' = CASE pc.i < Len(SatList) -> [pc EXCEPT !.i = @ + 1]
            [] pc.run <= runs      -> [pc EXCEPT !.stage = "reset", !.run = @ + 1, !.i = 1]
            [] OTHER               -> [pc EXCEPT !.stage = "done"]

\* send_storeperf's result is only logged; after the last satellite the
\* next run starts with new GroundStation objects, or run() returns.
AfterStorePerf ==
    pc' = CASE pc.i < Len(SatList) -> [pc EXCEPT !.i = @ + 1]
            [] pc.run < runs       -> [pc EXCEPT !.stage = "reset", !.run = @ + 1, !.i = 1]
            [] OTHER               -> [pc EXCEPT !.stage = "done"]

NewRun == pc.stage = "storeperf" /\ pc.i = Len(SatList) /\ pc.run < runs

\* _request returned res for request r; seqs is beacon_seqnum after the
\* step's get_next_beacon.
Return(r, res, seqs) ==
    /\ waiting' = NoReq
    /\ taken' = [req |-> r, reply |-> res]
    /\ lost' = IF res = Default THEN [lost EXCEPT ![r.sat] = TRUE] ELSE lost
    /\ CASE pc.stage = "connect"   -> AfterConnect(res)
         [] pc.stage = "resetperf" -> AfterResetPerf(res)
         [] pc.stage = "reset"     -> AfterReset(IsUnchanged(res))
         [] pc.stage = "init"      -> AfterInit(res)
         [] pc.stage = "predict"   -> AfterPredict(res)
         [] pc.stage = "query"     -> AfterQuery(res)
         [] pc.stage = "beacon"    -> AfterBeacon(res)
         [] pc.stage = "storeperf" -> AfterStorePerf
    /\ gsState' = CASE NewRun                                   -> FreshGs
                   [] pc.stage = "query" /\ pc'.stage # "crashed" -> GsAfterQuery(res)
                   [] OTHER                                    -> gsState
    /\ seqnum' = IF NewRun THEN [g \in Stations |-> 0] ELSE seqs

-----------------------------------------------------------------------------
(* Actions                                                                 *)

\* The harness is at a call of _request (the prediction request only if
\* is_last_prediction_in_the_future is false, send_reset only without
\* --skiprestart).
Calling ==
    /\ waiting = NoReq
    /\ pc.stage \in {"connect", "resetperf", "reset", "init", "predict", "query",
                     "beacon", "storeperf"}
    /\ ~(pc.stage = "reset" /\ noReset)
    /\ ~(pc.stage = "predict" /\ gsState[Contact(pc.i).gs][Contact(pc.i).sat].early)

\* get_next_beacon, called just before send_beacon, counts the station's
\* beacon_seqnum up.
Drawn == IF pc.stage = "beacon"
         THEN [seqnum EXCEPT ![Contact(pc.i).gs] = @ + 1] ELSE seqnum

\* send_json on a socket in its send state queues the request to the
\* instance; recv_string then waits.
SendRequest ==
    /\ Calling
    /\ LET r == Request(pc, seqnum)
       IN  /\ sock[r.sat] = "send"
           /\ inbox' = [inbox EXCEPT ![r.sat] = Append(@, r)]
           /\ sock' = [sock EXCEPT ![r.sat] = "recv"]
           /\ waiting' = r
           /\ seqnum' = Drawn
    /\ UNCHANGED <<runs, noReset, pc, outbox, gsState, lastBeacon, taken, lost, regress>>

\* send_json on a socket still in its receive state raises ZMQError
\* (EFSM): _request returns the default without sending.
SendRefused ==
    /\ Calling
    /\ LET r == Request(pc, seqnum)
       IN  /\ sock[r.sat] = "recv"
           /\ Return(r, Default, Drawn)
    /\ UNCHANGED <<runs, noReset, sock, inbox, outbox, lastBeacon, regress>>

\* recv_string returns the next reply queued to the socket.
Recv ==
    /\ waiting # NoReq
    /\ outbox[waiting.sat] # <<>>
    /\ sock' = [sock EXCEPT ![waiting.sat] = "send"]
    /\ outbox' = [outbox EXCEPT ![waiting.sat] = Tail(@)]
    /\ Return(waiting, Head(outbox[waiting.sat]), seqnum)
    /\ UNCHANGED <<runs, noReset, inbox, lastBeacon, regress>>

\* Mutant of Timeout: a socket with ZMQ_REQ_RELAXED (and no
\* ZMQ_REQ_CORRELATE) may send again after a timed-out receive.
TimeoutRelaxed ==
    /\ waiting # NoReq
    /\ outbox[waiting.sat] = <<>>
    /\ sock' = [sock EXCEPT ![waiting.sat] = "send"]
    /\ Return(waiting, Default, seqnum)
    /\ UNCHANGED <<runs, noReset, inbox, outbox, lastBeacon, regress>>

\* Mutant of Timeout: NDClient(rcvtimeo=-1), recv_string never times out.
TimeoutNever == FALSE

\* RCVTIMEO (3000 ms) expires with no reply queued: recv_string raises
\* zmq.Again, _request returns the default, and the socket stays in its
\* receive state.
Timeout ==
    /\ waiting # NoReq
    /\ outbox[waiting.sat] = <<>>
    /\ Return(waiting, Default, seqnum)
    /\ UNCHANGED <<runs, noReset, sock, inbox, outbox, lastBeacon, regress>>

\* is_last_prediction_in_the_future: no prediction request.
SkipPredict ==
    /\ waiting = NoReq /\ pc.stage = "predict"
    /\ gsState[Contact(pc.i).gs][Contact(pc.i).sat].early
    /\ pc' = [pc EXCEPT !.stage = "query"]
    /\ UNCHANGED <<runs, noReset, waiting, sock, inbox, outbox, gsState, seqnum,
                   lastBeacon, taken, lost, regress>>

\* send_reset with no_reset returns (True, None) without a request.
SkipReset ==
    /\ waiting = NoReq /\ pc.stage = "reset" /\ noReset
    /\ AfterReset(TRUE)
    /\ UNCHANGED <<runs, noReset, waiting, sock, inbox, outbox, gsState, seqnum,
                   lastBeacon, taken, lost, regress>>

\* An RRND instance answers its oldest request.  A reset forgets the
\* beacons it has seen; a beacon's time is compared with the last one.
Serve(s) ==
    /\ inbox[s] # <<>>
    /\ LET r == Head(inbox[s])
           b == [gs |-> r.gs, time |-> r.time]
       IN  /\ \E rep \in Replies(r) : outbox' = [outbox EXCEPT ![s] = Append(@, rep)]
           /\ inbox' = [inbox EXCEPT ![s] = Tail(@)]
           /\ lastBeacon' = CASE r.cmd = "reset"   -> [lastBeacon EXCEPT ![s] = NoBeacon]
                              [] r.cmd = "process" -> [lastBeacon EXCEPT ![s] = b]
                              [] OTHER             -> lastBeacon
           /\ regress' = IF /\ r.cmd = "process"
                            /\ lastBeacon[s].gs # "none"
                            /\ r.time < lastBeacon[s].time
                         THEN [regress EXCEPT ![s] = <<lastBeacon[s], b>>]
                         ELSE regress
    /\ UNCHANGED <<runs, noReset, pc, waiting, sock, gsState, seqnum, taken, lost>>

Harness == SendRequest \/ SendRefused \/ Recv \/ Timeout \/ SkipPredict \/ SkipReset

Next == Harness \/ \E s \in Sats : Serve(s)

\* The harness is one thread that never blocks longer than RCVTIMEO; the
\* RRND instances get no fairness: one may hang or die.
Spec == Init /\ [][Next]_vars /\ WF_vars(Harness)

-----------------------------------------------------------------------------
(* Properties                                                              *)

TypeOK ==
    /\ runs \in 1..MaxRuns /\ noReset \in BOOLEAN
    /\ pc.stage \in {"connect", "resetperf", "reset", "init", "predict", "query",
                     "beacon", "storeperf", "done", "crashed"}
    /\ pc.run \in 1..runs /\ pc.i \in Nat \ {0}
    /\ sock \in [Sats -> {"send", "recv"}]
    /\ seqnum \in [Stations -> Nat]

\* A reply _request hands back is the RRND instance's answer to the request
\* it just sent, or the default {}: a reply that arrives after its
\* request timed out is never taken as the answer to a later request,
\* because the REQ socket refuses to send again.
ReplyMatchesRequest ==
    taken # <<>> => taken.reply.to \in {taken.req, NoReq}

\* The run ends with an exception nobody raised on purpose (a KeyError or
\* AssertionError, not the Exception of run() or the RuntimeError of
\* initialize_instance) only after the satellite's client lost a reply:
\* with an instance that always answers, the first query of every
\* station (whose data["contacts"] entry is still missing) and every
\* failed verification are caught.
CrashOnlyAfterLostReply ==
    pc.stage = "crashed" /\ pc.exc \notin {"Exception", "RuntimeError"}
        => lost[Contact(pc.i).sat]

\* InContact(c, t): beacon time t is one of contact c's.
InContact(c, t) == c.start < t /\ t <= c.end
Overlap(c1, c2) == c1.start <= c2.end /\ c2.start <= c1.end

\* "Time should never run backwards for the satellites"
\* (_replay_contact_list): an RRND instance gets a beacon older than the
\* one before it only when the two belong to contacts of its satellite
\* with two stations that overlap in time; replaying the plan by start
\* time keeps every other pair in order.
BeaconTimeRegressOnlyOnOverlap ==
    \A s \in Sats : regress[s] # <<>> =>
        \E c1, c2 \in ToSet(Plan) :
            /\ c1.sat = s /\ c2.sat = s /\ c1 # c2
            /\ c1.gs = regress[s][1].gs /\ c2.gs = regress[s][2].gs
            /\ InContact(c1, regress[s][1].time) /\ InContact(c2, regress[s][2].time)
            /\ Overlap(c1, c2)

\* Whatever the instances do, a scenario run ends: it returns or raises.
ScenarioEnds == <>(pc.stage \in {"done", "crashed"})
==============================================================================
