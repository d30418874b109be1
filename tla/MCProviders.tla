---------------------------- MODULE MCProviders ----------------------------
(***************************************************************************)
(* All storage providers, each with its callers.  A behaviour is one drive *)
(* and one scenario of two jobs; the seed object is id 1.                  *)
(***************************************************************************)
EXTENDS GDrive, Dropbox, OneDrive, BoxDrive, PCloud, S3Drive, WebDav

J(kind, name, ref, n) == [kind |-> kind, name |-> name, ref |-> ref, n |-> n]
Idle == J("none", 1, None, 0)
MCScenarios ==
    { <<J("stream", 2, None, 2), Idle>>, <<J("stream", 2, None, 0), Idle>>,
      <<J("pull", 2, 1, 1), J("put", 1, 1, 2)>>,
      <<J("cas", 1, 1, 1), J("cas", 1, 1, 2)>>,
      <<J("copy", 3, 1, 0), J("delete", 1, 1, 0)>>,
      <<J("get", 1, 1, 0), J("session", 1, 1, 1)>>,
      <<J("list", 1, 1, 0), J("put", 1, 1, 1)>>,
      <<J("folders", 4, 1, 0), J("folders", 4, 1, 0)>>,
      <<J("put", 5, None, 1), J("put", 5, None, 1)>>,
      <<J("put", 1, 1, 1), J("delete", 1, 1, 0)>> }

JobNext(t) ==
    \/ GdNext(t) \/ DbNext(t) \/ OdNext(t) \/ BxNext(t) \/ PcNext(t) \/ S3Next(t) \/ WdNext(t)
    \/ Refused(t)
MCDone == (\A t \in Jobs : job[t].pc = "end") /\ UNCHANGED cloudVars
MCNext == (\E t \in Jobs : JobNext(t) \/ SweepStale(t)) \/ MCDone
\* A job is code that runs until it has its result; only the fates of its requests and
\* the sweep are up to the environment.
MCSpec == CloudInit /\ [][MCNext]_cloudVars /\ \A t \in Jobs : WF_cloudVars(JobNext(t))
-----------------------------------------------------------------------------
Origin(body) == IF IsWhole(body) THEN body[1][1] ELSE None
Content(t) == CASE Kind(t) = "copy" -> 0
                [] Kind(t) \in {"put", "cas", "stream", "session"} -> t
                [] OTHER -> None
Store1 == INSTANCE CloudStore WITH
    Calls <- Jobs, NoAnswer <- "none", Nothing <- None,
    content <- [t \in Jobs |-> Content(t)],
    store <- [id \in DOMAIN cloud.obj |-> Origin(cloud.obj[id].body)],
    stored <- {e.by : e \in cloud.log},
    result <- [t \in Jobs |-> IF job[t].pc = "end" /\ Kind(t) # "none" THEN job[t].out ELSE "none"]

\* Every provider, with all its requests and failures, implements the store the
\* application expects: whole contents only, stored once, and before the answer.
ImplementsStore == Store1!StoreSpec

\* Every job ends, whatever fails: no operation of a provider waits for a retry, an
\* abort or a range that never comes.
JobsEnd == \A t \in Jobs : <>(job[t].pc = "end")
=============================================================================
