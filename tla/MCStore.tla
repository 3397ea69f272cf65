------------------------------ MODULE MCStore ------------------------------
(* Messages of one session over the families of MCEngine: a demand, a      *)
(* correction, a contradiction, a parallel question and a decision of the  *)
(* administration.                                                         *)
EXTENDS ConversationStore, MCEngine, TLC

Event(kind, goal, facts) ==
    [kind |-> kind, goal |-> goal, ref |-> <<"meu pai">>, facts |-> facts, base |-> "none",
     baseFacts |-> <<>>, abandon |-> FALSE, closing |-> FALSE]
Says(events) == [events |-> events]
Told1(code, value) == <<Fact(code, value)>>
MCMessages ==
    [described |-> Says(<<Event("NEW_GOAL", "TRANSPORTE", Told1("remains_status", "EXUMADO"))>>),
     corrected |-> Says(<<Event("CORRECTION", "none", Told1("remains_status", "SEPULTADO"))>>),
     buried |-> Says(<<Event("ANSWER", "none", Told1("remains_status", "SEPULTADO"))>>),
     hours |-> Says(<<Event("PARALLEL_QUESTION", "INFO_HORARIO", <<>>)>>),
     decision |-> Says(<<[kind |-> "SIGNAL", target |-> 0,
                          facts |-> Told1("exhumation_authorization", "OBTIDA_RESPONSAVEL")]>>)]
\* three answers to one question
MCDisputed ==
    [described |-> MCMessages.described, buried |-> MCMessages.buried,
     unknown |-> Says(<<Event("ANSWER", "none", Told1("remains_status", "DESCONHECIDO"))>>)]
\* three demands, of which the last two are settled by one answer
MCInterrupted ==
    [described |-> MCMessages.described,
     another |-> Says(<<Event("NEW_GOAL", "OUTROS_ASSUNTOS", <<>>)>>),
     hours |-> MCMessages.hours,
     both |-> Says(<<Event("ANSWER", "none", Told1("other_subject_description", "dado")
                                             \o Told1("service_hours_request", "dado"))>>)]
Symmetric == Permutations(Servers)
=============================================================================
