------------------------------ MODULE MCMotor ------------------------------
(* What citizens of the families of MCEngine write, and what a provider and *)
(* the model of the current workflow may make of it.                        *)
EXTENDS MotorV2, MCEngine

Text(says, goals, facts, intents) ==
    [NoText EXCEPT !.says = says, !.facts = facts, !.intents = intents,
                   !.goals = [k \in DOMAIN goals |-> [code |-> goals[k], low |-> FALSE]]]
Stated(code, value) == [code |-> code, value |-> value, bare |-> FALSE]
Exhume == [Text({"remains"}, <<"EXUMACAO">>, <<Stated("exhumation_purpose", "dado")>>,
                {"EXUMACAO"}) EXCEPT !.hint = "meu pai"]
Concession == Text({}, <<"CONCESSAO">>, <<>>, {"CONCESSAO"})
Both == Text({"remains"}, <<"EXUMACAO">>, <<>>, {"EXUMACAO", "RECADASTRO"})
Alive == Text({"courtesy"}, <<>>, <<Stated("surviving_spouse_status", "VIVO")>>, {})
Yes == Text({}, <<>>, <<[Stated("surviving_spouse_status", "VIVO") EXCEPT !.bare = TRUE]>>, {})
Conflict == Text({"familyConflict", "correction"}, <<>>,
                 <<Stated("exhumation_authorization", "PENDENTE"),
                   Stated("burial_reference", "NOVA")>>, {})
Hours == [Text({"parallel"}, <<>>, <<>>, {}) EXCEPT !.topic = "INFO_HORARIO"]
McTexts == {Exhume, Concession, Both, Alive, Yes, Conflict, Hours, Text({"media"}, <<>>, <<>>, {})}

Understanding(subintents, changed, risk, confidence, cites) ==
    [subintents |-> subintents, states |-> {}, changed |-> changed, critical |-> FALSE,
     risk |-> risk, confidence |-> confidence, cites |-> cites]
Classified(u) == [kind |-> "answer", says |-> u]
McReplies ==
    {[kind |-> "timeout"], Classified(Understanding({"OUTRA"}, FALSE, "none", "high", TRUE)),
     Classified(Understanding({}, FALSE, "none", "low", FALSE)),
     Classified(Understanding({"EXUMACAO"}, TRUE, "none", "high", FALSE)),
     Classified(Understanding({"RECADASTRO"}, TRUE, "none", "low", TRUE)),
     Classified(Understanding({"RECADASTRO"}, TRUE, "P0", "high", TRUE)),
     Classified(Understanding({"CONCESSAO", "EXUMACAO"}, FALSE, "none", "high", TRUE)),
     Classified([Understanding({}, FALSE, "none", "high", FALSE)
                   EXCEPT !.states = {"CONVERSATION_CLOSING"}])}
Proposed(event, goal, facts) ==
    [kind |-> "answer", heard |-> [Unheard EXCEPT !.event = event, !.goal = goal, !.facts = facts,
                                                  !.caseKind = "NEW"]]
McProposals == {NoProposal, Proposed("NEW_GOAL", "TRANSPORTE", <<>>)}
=============================================================================
