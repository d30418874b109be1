------------------------------ MODULE MCRelay ------------------------------
(***************************************************************************)
(* The relay's in-memory and account state, one part at a time: a          *)
(* behaviour stays in the lane it starts in, so the state space is the sum *)
(* of those of the parts and not their product.  The parts share no state. *)
(***************************************************************************)
EXTENDS RelayLimits, RelayAuth, RelayEnrollment, RelayChannels, SftpGate, UsageStats, TLC

VARIABLE lane

Lanes == {"windows", "uploads", "downloads", "auth", "enroll", "channels", "gate", "calendar",
          "stats"}

\* Two addresses of one IPv6 /64, and an IPv4 address.
MCAddrs == {[v |-> 6, hi |-> 1, lo |-> 1], [v |-> 6, hi |-> 1, lo |-> 2],
            [v |-> 4, hi |-> 1, lo |-> 1]}
MCPurposes == {[cat |-> "sftp", target |-> 1], [cat |-> "share", target |-> 1],
               [cat |-> "stats", target |-> 0], [cat |-> "admin", target |-> 1]}

\* Model values that are only compared: nothing orders or chooses one of them.
MCSymmetry == Permutations(ShareIds) \cup Permutations(Calls) \cup Permutations(Hosts)

\* Events a page may record: one the relay counts, one the client cannot parse, a snapshot.
Sh(k, p, c, b) == [kind |-> k, prov |-> p, cls |-> c, bytes |-> b]
MCShapes == {Sh("upload", "gdrive", "", 1), Sh("error", "gdrive", "Aborted", 0),
             Sh("device_size_snapshot", "gdrive", "", 1)}

\* The first tab is in the browser of device 1 and its clock is right; the second is one of
\* device 2, or of device 1 after its clock was set forward.
TabsAtStart ==
    /\ stTab[1].dev = 1 /\ stTab[1].off = 0
    /\ stTab[2].dev = 2 <=> stTab[2].off = 0
    /\ lane # "stats" => stTab[2].dev = 2

MCInit ==
    /\ LimitsInit /\ AuthInit /\ EnrollInit /\ ChanInit /\ GateInit /\ StatsInit
    /\ lane \in Lanes /\ TabsAtStart /\ (lane # "calendar" => stDay = 0)
    /\ now = IF lane = "uploads" THEN DayW - 1 ELSE 0    \* only the day matters to an upload

LimitsLane ==
    /\ \/ lane = "windows" /\ WindowNext
       \/ lane = "uploads" /\ UploadNext
       \/ lane = "downloads" /\ DownloadNext
       \/ lane \in {"windows", "uploads", "downloads"} /\ LimitsTick
       \/ lane \in {"windows", "downloads"} /\ (\E r \in Reqs : rq[r].op # "idle")
            /\ LimitsRestart
    /\ UNCHANGED <<authVars, enrollVars, chanVars, gateVars, statsVars>>
AuthLane == lane = "auth" /\ AuthNext /\ UNCHANGED <<limitVars, enrollVars, chanVars, gateVars, statsVars>>
EnrollLane == lane = "enroll" /\ EnrollNext /\ UNCHANGED <<limitVars, authVars, chanVars, gateVars, statsVars>>
ChanLane == lane = "channels" /\ ChanNext /\ UNCHANGED <<limitVars, authVars, enrollVars, gateVars, statsVars>>
\* Of the hosts one changes its key.
GateLane == lane = "gate" /\ GateNext /\ Cardinality({h \in Hosts : serverKey'[h] > 1}) <= 1
    /\ UNCHANGED <<limitVars, authVars, enrollVars, chanVars, statsVars>>

\* Days go by across the century years without events, and events come on two days.
StatsLane ==
    /\ \/ lane = "calendar" /\ StTick
       \/ lane = "stats" /\ StatsNext /\ (stDay < 1 \/ stDay' = stDay)
    /\ UNCHANGED <<limitVars, authVars, enrollVars, chanVars, gateVars>>

MCNext == (LimitsLane \/ AuthLane \/ EnrollLane \/ ChanLane \/ GateLane \/ StatsLane)
    /\ UNCHANGED lane
MCSpec == MCInit /\ [][MCNext]_<<limitVars, authVars, enrollVars, chanVars, gateVars, statsVars,
                        lane>>
=============================================================================
