----------------------------- MODULE MCDialogue -----------------------------
(* Citizens of the families of MCEngine: what they may write, one message  *)
(* carrying several facts, and the decisions of an operator.               *)
EXTENDS Dialogue, MCEngine

Heard ==
    [event |-> "ANSWER", goal |-> "none", goalLow |-> FALSE, eventLow |-> FALSE,
     caseKind |-> "CURRENT", caseLow |-> FALSE, hint |-> "none", blocking |-> FALSE,
     media |-> FALSE, p0 |-> FALSE, intentChanged |-> FALSE, clarify |-> FALSE,
     facts |-> <<>>, secondary |-> <<>>, closing |-> FALSE, status |-> FALSE,
     failed |-> FALSE, restart |-> FALSE, explained |-> FALSE]
Read(code, value) == [code |-> code, value |-> value, source |-> "USER_EXPLICIT",
                      confidence |-> "default", authoritative |-> FALSE,
                      low |-> FALSE, confirm |-> FALSE]
Demand(goal, facts) ==
    [Heard EXCEPT !.event = "NEW_GOAL", !.goal = goal, !.caseKind = "NEW",
                  !.hint = "meu pai", !.facts = facts]
Says(event, facts) == [Heard EXCEPT !.event = event, !.facts = facts]

Exhume == Demand("EXUMACAO", <<Read("burial_reference", "dado"),
                               Read("exhumation_purpose", "dado"),
                               Read("surviving_spouse_status", "FALECIDO")>>)
Move == Demand("TRANSPORTE", <<Read("remains_status", "SEPULTADO")>>)
Enclosed == Says("ANSWER", <<Read("requester_document", "dado")>>)
\* the same transport asked for again, in the words that say it all
Again == [Demand("TRANSPORTE", <<Read("transport_destination", "OUTRO_CEMITERIO"),
                                 Read("transport_date_preference", "dado"),
                                 Read("requester_document", "dado")>>)
            EXCEPT !.caseKind = "CURRENT"]
Repeated == {Move, Again}
Buried == {Move}
\* a demand of no kind, in which an exhumation is then recognised
Other == Demand("OUTROS_ASSUNTOS", <<Read("other_subject_description", "dado")>>)
Meant == [Says("RECLASSIFICATION", <<>>) EXCEPT !.goal = "EXUMACAO", !.intentChanged = TRUE]
Particulars ==
    Says("ANSWER", <<Read("burial_reference", "dado"), Read("exhumation_purpose", "dado"),
                     Read("surviving_spouse_status", "FALECIDO"),
                     Read("requester_document", "dado")>>)
Unfiled == {Other, Meant, Particulars, Says("CHANGE_OF_MIND", <<Read("burial_reference", "NOVA")>>)}
Unnamed == {Other}
MCCaptions == {Enclosed}
MCOpenings == {Exhume, Move}
MCInterpretations ==
    {Exhume, Move,
     Enclosed,
     Says("CORRECTION", <<[Read("surviving_spouse_status", "VIVO")
                             EXCEPT !.source = "USER_CORRECTION"]>>),
     Says("ANSWER", <<Read("surviving_spouse_status", "FALECIDO")>>),
     Says("CHANGE_OF_MIND", <<Read("burial_reference", "NOVA")>>),
     Says("COMPLEMENT", <<Read("remains_status", "EXUMADO")>>),
     Says("HUMAN_REQUEST", <<>>), Says("SOCIAL", <<>>),
     [Says("COMPLAINT", <<Read("complaint_description", "dado")>>) EXCEPT !.goal = "TRANSPORTE"],
     [Says("PARALLEL_QUESTION", <<>>) EXCEPT !.goal = "INFO_HORARIO"],
     [Says("RECLASSIFICATION", <<>>) EXCEPT !.goal = "TRANSPORTE", !.intentChanged = TRUE]}
MCDecisions == {[fact |-> "exhumation_authorization", value |-> "OBTIDA_RESPONSAVEL"],
                [fact |-> "exhumation_authorization", value |-> "PENDENTE"]}
MCFileName == <<"arquivo 1", "arquivo 2">>
=============================================================================
