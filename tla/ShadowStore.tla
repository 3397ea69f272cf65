----------------------------- MODULE ShadowStore -----------------------------
(***************************************************************************)
(* The offline evaluation of two motors (phase18/shadow): runners read     *)
(* episodes, skip those that are stored, evaluate the others and commit    *)
(* one record per event under that event's lock (store.ts); a checkpoint   *)
(* file is written again from a listing of the records after each commit   *)
(* and at every opening.  A runner may die between any two steps and be    *)
(* started again.                                                          *)
(* An episode is its event, its cohort and its content; what the two motors*)
(* say of it is a verdict, which may differ from run to run (durations).   *)
(***************************************************************************)
EXTENDS Integers, Sequences, FiniteSets

CONSTANTS
    Runner,      \* processes of run_shadow.ts on one store
    Lines,       \* runner -> the episodes on its input
    CohortOf,    \* runner -> the cohort of its arguments
    MaxCases,    \* runner -> --max-cases, 0 when absent
    Verdicts,    \* what an evaluation may record; "sensitive" is refused
    MaxOpens     \* bound on the starts of a runner

Episodes == UNION {{Lines[r][k] : k \in DOMAIN Lines[r]} : r \in Runner}
EventIds == {e.event : e \in Episodes}
NoEpisode == [event |-> "none"]
Unrecorded == [episode |-> NoEpisode, verdict |-> "none"]
Free == "free"

ASSUME ShadowAssumption ==
    /\ Free \notin Runner /\ MaxOpens \in Nat /\ "none" \notin EventIds
    /\ MaxCases \in [Runner -> Nat] /\ \A r \in Runner : Lines[r] \in Seq(Episodes)

VARIABLES
    records,     \* event -> the record stored for it
    checkpoint,  \* the events checkpoint.json lists
    eventLock,   \* event -> the runner that holds its lock
    at,          \* where a runner is
    line,        \* the episode it is at
    listing,     \* the events it listed for the checkpoint
    verdict,     \* what it found of the episode
    opens        \* starts so far
shadowVars == <<records, checkpoint, eventLock, at, line, listing, verdict, opens>>

ShadowTypeOK ==
    /\ records \in [EventIds -> [episode : Episodes, verdict : Verdicts] \cup {Unrecorded}]
    /\ checkpoint \subseteq EventIds
    /\ eventLock \in [EventIds -> Runner \cup {Free}]
    /\ at \in [Runner -> {"off", "opening", "ready", "evaluating", "evaluated", "locked",
                          "written", "listed", "finished", "failed"}]
    /\ line \in [Runner -> Nat \ {0}]
    /\ listing \in [Runner -> SUBSET EventIds]
    /\ verdict \in [Runner -> Verdicts \cup {"none"}]
    /\ opens \in [Runner -> 0..MaxOpens]

-----------------------------------------------------------------------------
Stored == {e \in EventIds : records[e] # Unrecorded}
Here(r) == Lines[r][line[r]]
HasLine(r) == line[r] <= Len(Lines[r]) /\ (MaxCases[r] = 0 \/ line[r] <= MaxCases[r])

\* get: a record of another cohort is an error, not a miss
IsForeign(r, e) == records[e] # Unrecorded /\ records[e].episode.cohort # CohortOf[r]
SameContent(r) == records[Here(r).event].episode = Here(r)

Goes(r, where) == at' = [at EXCEPT ![r] = where]
\* a process that exits, for whatever reason, holds no lock any more
Exits(r, where) ==
    /\ Goes(r, where)
    /\ eventLock' = [e \in EventIds |-> IF eventLock[e] = r THEN Free ELSE eventLock[e]]
NextLine(r) == line' = [line EXCEPT ![r] = @ + 1] /\ Goes(r, "ready")

ShadowInit ==
    /\ records = [e \in EventIds |-> Unrecorded] /\ checkpoint = {}
    /\ eventLock = [e \in EventIds |-> Free]
    /\ at = [r \in Runner |-> "off"] /\ line = [r \in Runner |-> 1]
    /\ listing = [r \in Runner |-> {}] /\ verdict = [r \in Runner |-> "none"]
    /\ opens = [r \in Runner |-> 0]

\* DurableShadowStore.open: the store is listed, which fails on a foreign record
Open(r) ==
    /\ at[r] = "off" /\ opens[r] < MaxOpens
    /\ opens' = [opens EXCEPT ![r] = @ + 1] /\ line' = [line EXCEPT ![r] = 1]
    /\ IF \E e \in EventIds : IsForeign(r, e)
       THEN Exits(r, "failed") /\ UNCHANGED listing
       ELSE /\ Goes(r, "opening") /\ UNCHANGED eventLock
            /\ listing' = [listing EXCEPT ![r] = Stored]
    /\ UNCHANGED <<records, checkpoint, verdict>>

\* rebuildCheckpoint, second half, when the store is opened
CheckpointAtOpen(r) ==
    /\ at[r] = "opening" /\ checkpoint' = listing[r] /\ Goes(r, "ready")
    /\ UNCHANGED <<records, eventLock, line, listing, verdict, opens>>

\* the envelope is checked, then the store is asked, before any lock
SkipAny(r) == /\ records[Here(r).event] # Unrecorded
              /\ ~IsForeign(r, Here(r).event)
Skip(r) == SkipAny(r) /\ SameContent(r)
Lookup(r) ==
    LET own == Here(r).cohort = CohortOf[r]
        known == records[Here(r).event] # Unrecorded IN
    /\ at[r] = "ready" /\ HasLine(r)
    /\ \/ own /\ Skip(r) /\ NextLine(r) /\ UNCHANGED eventLock
       \/ own /\ ~known /\ Goes(r, "evaluating") /\ UNCHANGED <<line, eventLock>>
       \/ (~own \/ (known /\ ~Skip(r))) /\ Exits(r, "failed") /\ UNCHANGED line
    /\ UNCHANGED <<records, checkpoint, listing, verdict, opens>>

\* evaluate: both motors, then the privacy check of what would be persisted
Evaluate(r) ==
    /\ at[r] = "evaluating"
    /\ \E v \in Verdicts :
          /\ verdict' = [verdict EXCEPT ![r] = v]
          /\ IF v = "sensitive" THEN Exits(r, "failed")
             ELSE Goes(r, "evaluated") /\ UNCHANGED eventLock
    /\ UNCHANGED <<records, checkpoint, line, listing, opens>>

LockEvent(r) ==
    /\ at[r] = "evaluated" /\ eventLock[Here(r).event] = Free
    /\ eventLock' = [eventLock EXCEPT ![Here(r).event] = r] /\ Goes(r, "locked")
    /\ UNCHANGED <<records, checkpoint, line, listing, verdict, opens>>

Release(r) == eventLock' = [eventLock EXCEPT ![Here(r).event] = Free]
NewRecord(r) ==
    records' = [records EXCEPT ![Here(r).event] =
                   [episode |-> Here(r), verdict |-> verdict[r]]]

\* commit asks again under the lock
CommitUnasked(r) ==
    /\ at[r] = "locked" /\ NewRecord(r) /\ Goes(r, "written")
    /\ UNCHANGED <<checkpoint, eventLock, line, listing, verdict, opens>>
CommitNew(r) ==
    /\ at[r] = "locked" /\ records[Here(r).event] = Unrecorded
    /\ NewRecord(r) /\ Goes(r, "written")
    /\ UNCHANGED <<checkpoint, eventLock, line, listing, verdict, opens>>
CommitDuplicate(r) ==
    /\ at[r] = "locked" /\ Skip(r) /\ NextLine(r) /\ Release(r)
    /\ UNCHANGED <<records, checkpoint, listing, verdict, opens>>
CommitRefused(r) ==
    /\ at[r] = "locked" /\ records[Here(r).event] # Unrecorded /\ ~Skip(r)
    /\ Exits(r, "failed")
    /\ UNCHANGED <<records, checkpoint, line, listing, verdict, opens>>

\* the listing and the write of the checkpoint are two steps, under no common lock
ListAll(r) ==
    /\ at[r] = "written" /\ Goes(r, "listed")
    /\ listing' = [listing EXCEPT ![r] = Stored]
    /\ UNCHANGED <<records, checkpoint, eventLock, line, verdict, opens>>
CheckpointAfterCommit(r) ==
    /\ at[r] = "listed" /\ checkpoint' = listing[r] /\ Release(r) /\ NextLine(r)
    /\ UNCHANGED <<records, listing, verdict, opens>>

\* the run reports how many events the checkpoint holds
Report(r) ==
    /\ at[r] = "ready" /\ ~HasLine(r) /\ Exits(r, "finished")
    /\ UNCHANGED <<records, checkpoint, line, listing, verdict, opens>>

\* the process dies, or is started again after it ended; its lock is freed
CrashRunner(r) ==
    /\ at[r] # "off" /\ Exits(r, "off")
    /\ verdict' = [verdict EXCEPT ![r] = "none"] /\ listing' = [listing EXCEPT ![r] = {}]
    /\ UNCHANGED <<records, checkpoint, line, opens>>

Works(r) == \/ CheckpointAtOpen(r) \/ Lookup(r) \/ Evaluate(r) \/ LockEvent(r)
            \/ CommitNew(r) \/ CommitDuplicate(r) \/ CommitRefused(r)
            \/ ListAll(r) \/ CheckpointAfterCommit(r) \/ Report(r)
ShadowNext == \E r \in Runner : Open(r) \/ Works(r) \/ CrashRunner(r)
ShadowSpec == ShadowInit /\ [][ShadowNext]_shadowVars

-----------------------------------------------------------------------------
(* What the evidence is worth.                                             *)

\* What was recorded of an event is never replaced, by another content or by a
\* second evaluation of the same one, however many runners found it missing
\* (commit).
RecordsStand ==
    [][\A e \in EventIds : records[e] # Unrecorded => records'[e] = records[e]]_shadowVars

\* A run that completed left a record of each episode it processed, of exactly
\* that content and of its cohort, whoever wrote it and whoever died meanwhile
\* (main).
CompletedIsStored ==
    \A r \in Runner : at[r] = "finished" =>
        \A k \in 1..(line[r] - 1) :
            /\ records[Lines[r][k].event].episode = Lines[r][k]
            /\ Lines[r][k].cohort = CohortOf[r]

\* The checkpoint is what the records say once nobody is at work: "checkpoint is
\* reconstructed from complete records" (phase18/tests/shadow_store_test.ts).
CheckpointIsComplete ==
    (\A r \in Runner : at[r] = "finished") => checkpoint = Stored
=============================================================================
