---------------------------- MODULE TurnPlanning ----------------------------
(***************************************************************************)
(* From a message to the reducer: the interpretation an interpreter        *)
(* proposes is sanitised (interpreter/guard.ts), arbitrated event by event *)
(* (interpreter/confidence_matrix.ts), translated into events of the       *)
(* reducer (interpreter/bridge.ts) and applied as one plan (turn.ts).      *)
(* What the interpreters read in a text is not modelled: an interpretation *)
(* is a record whose confidences are LOW or not.                           *)
(***************************************************************************)
EXTENDS ConversationEngine
LOCAL INSTANCE SequencesExt
LOCAL INSTANCE FiniteSetsExt

CONSTANT React(_, _)   \* the reducer: ApplyEvent

\* what an interpreter proposes for a message
InterpretationFields ==
    {"event", "goal", "goalLow", "eventLow", "caseKind", "caseLow", "hint", "blocking", "media",
     "p0", "intentChanged", "clarify", "facts", "secondary", "closing", "status", "failed",
     "restart", "explained"}

DefaultBase == "OUTROS_ASSUNTOS"   \* what a complaint without a subject is about
IsOpen(s) == GoalsWith(s, OpenStatuses) # {}

-----------------------------------------------------------------------------
(* Between the language and the domain.                                    *)

Acceptable(f) ==
    /\ ~FactDef[f.code].authority /\ ~FactDef[f.code].derived
    /\ f.source \in {"USER_EXPLICIT", "USER_CORRECTION"}
    /\ ~f.low

GuardInterpretation(i) ==
    LET kept == Among(i.facts, {f \in ToSet(i.facts) : Acceptable(f)}) IN
    [i EXCEPT !.facts = kept, !.clarify = @ \/ (i.facts # <<>> /\ kept = <<>>)]

Scope(i) == [goalLow |-> i.goal # "none" /\ i.goalLow,
             eventLow |-> i.eventLow,
             caseLow |-> i.caseLow, ambiguous |-> i.caseKind = "AMBIGUOUS"]

\* LOW only stops the events that depend on the LOW field
FieldsSuffice(i) ==
    LET low == Scope(i) IN
    CASE i.event = "RECLASSIFICATION" ->
            i.intentChanged /\ i.goal # "none" /\ ~low.goalLow /\ ~low.eventLow /\ ~low.ambiguous
      [] i.event = "NEW_GOAL" ->
            /\ i.goal # "none" /\ ~low.goalLow /\ ~low.ambiguous /\ ~low.caseLow /\ ~low.eventLow
            /\ \A k \in DOMAIN i.secondary : ~i.secondary[k].low
      [] i.event \in {"CORRECTION", "CHANGE_OF_MIND"} ->
            /\ ~low.goalLow /\ ~low.ambiguous /\ ~low.eventLow
            /\ low.caseLow => i.caseKind = "CURRENT"
      [] i.event = "SOCIAL" -> TRUE
      [] i.event = "HUMAN_REQUEST" -> ~low.eventLow
      [] i.event \in {"ANSWER", "COMPLEMENT"} -> ~low.ambiguous /\ ~low.eventLow
      [] i.event = "PARALLEL_QUESTION" -> ~low.goalLow /\ ~low.eventLow
      [] i.event = "COMPLAINT" -> ~low.goalLow /\ ~low.eventLow /\ ~low.ambiguous
      [] OTHER -> FALSE

\* P0 is a safety escalation that no LOW field can cancel
ArbitrateConfidence(i) ==
    IF i.p0 THEN i.event = "HUMAN_REQUEST"
    ELSE /\ ~i.media /\ ~i.blocking
         /\ \A k \in DOMAIN i.facts : ~i.facts[k].confirm
         /\ i.event # "none" /\ FieldsSuffice(i)

-----------------------------------------------------------------------------
(* The events of a turn.                                                   *)

EventOf(kind, facts) ==
    [kind |-> kind, goal |-> "none", ref |-> <<>>, facts |-> facts, base |-> "none",
     baseFacts |-> <<>>, abandon |-> FALSE, closing |-> FALSE]

\* a demand that is new never reuses a case that bears the same hint
CaseRef(s, i) ==
    LET g == ContextGoal(s)
        c == IF g = 0 THEN 0 ELSE s.goals[g].case
    IN CASE i.caseKind = "NEW" -> <<i.hint, s.seq>>
         [] i.caseKind # "NEW" /\ c # 0 -> s.cases[c].ref
         [] OTHER -> IF i.hint = "none" THEN <<"message", s.seq>> ELSE <<i.hint>>

ToConversationEvents(s, i) ==
    LET ofComplaint == {f \in ToSet(i.facts) : f.code \in ToSet(GoalDef[Complaint].required)}
        ofBase == ToSet(i.facts) \ ofComplaint
        about(e) == [e EXCEPT !.goal = i.goal, !.ref = CaseRef(s, i)]
        opening == about(EventOf("NEW_GOAL", <<>>))
        parallel == [k \in DOMAIN i.secondary |->
                        [EventOf("PARALLEL_QUESTION", <<>>) EXCEPT !.goal = i.secondary[k].goal]]
    IN CASE i.event = "NEW_GOAL" ->
                <<opening>> \o (IF i.facts = <<>> THEN <<>>
                                ELSE <<EventOf("COMPLEMENT", i.facts)>>) \o parallel
         [] i.event \in {"PARALLEL_QUESTION", "RECLASSIFICATION"} ->
                <<[EventOf(i.event, i.facts) EXCEPT !.goal = i.goal]>>
         [] i.event = "COMPLAINT" ->
                <<[about(EventOf("COMPLAINT", Among(i.facts, ofComplaint))) EXCEPT
                      !.base = IF i.goal = "none" THEN DefaultBase ELSE i.goal,
                      !.baseFacts = Among(i.facts, ofBase)]>>
         [] OTHER -> <<[EventOf(i.event, i.facts) EXCEPT !.closing = i.closing]>>

\* the events are asked for a goal when they need one
Clarifies(i) ==
    \/ i.clarify /\ i.event # "HUMAN_REQUEST"
    \/ i.event = "none"
    \/ i.event \in {"NEW_GOAL", "PARALLEL_QUESTION", "RECLASSIFICATION"} /\ i.goal = "none"

ApplyAll(s, events) ==
    FoldLeft(LAMBDA t, e : IF t.error = "none" THEN React(t, e) ELSE t, s, events)

\* PlanTurn: the state and the outcome of one message
Planned(s, i) ==
    LET guarded == GuardInterpretation(i)
        arbitrated == [guarded EXCEPT !.clarify = ~ArbitrateConfidence(guarded)]
        events == ToConversationEvents(s, arbitrated)
        next == IF i.status THEN React(s, EventOf("SOCIAL", <<>>))
                ELSE ApplyAll(s, events)
        unchanged(outcome, error) == [outcome |-> outcome, state |-> s, error |-> error]
    IN CASE i.explained \/ (i.restart /\ IsOpen(s)) -> unchanged("CLARIFICATION", "none")
         [] i.failed -> unchanged("INTERPRETATION_UNAVAILABLE", "none")
         [] ~i.status /\ Clarifies(arbitrated) -> unchanged("CLARIFICATION", "none")
         [] OTHER -> IF next.error = "none"
                     THEN [outcome |-> "PROPOSED", state |-> next, error |-> "none"]
                     ELSE unchanged("INTERPRETATION_UNAVAILABLE", next.error)
=============================================================================
