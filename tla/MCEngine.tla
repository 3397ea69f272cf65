------------------------------ MODULE MCEngine ------------------------------
(***************************************************************************)
(* Two families of the real catalogue (goals.v1.json, facts.v1.json,       *)
(* relations.v1.json, questions.v1.json) with the values of each fact that *)
(* the relations tell apart.                                               *)
(***************************************************************************)
EXTENDS ConversationEngine

User == {"USER_EXPLICIT", "USER_CORRECTION", "DOCUMENT"}
Signals == {"SYSTEM", "DOCUMENT"}
Anything == {"SEPULTADO", "EXUMADO", "OUTRO_CEMITERIO", "JAZIGO_FAMILIA", "TRANSPORTE",
             "VIVO", "FALECIDO", "DESCONHECIDO", "CONJUGE_E_RESPONSAVEL",
             "RESPONSAVEL", "OBTIDA_CONJUGE", "OBTIDA_RESPONSAVEL", "OBTIDA",
             "OK", "PENDENTE", "NOVA", "dado", "SIM", "NAO", "arquivo 1", "arquivo 2"}

FactOf(rank, sources, depends) ==
    [scope |-> "CASE", rank |-> rank, sources |-> sources, relevant |-> {},
     depends |-> depends, derived |-> FALSE, authority |-> FALSE, authValues |-> {},
     blocking |-> {}, accepts |-> Anything, rules |-> {}, repeatable |-> FALSE]
Derived(depends) == [FactOf(4, {"DERIVED_RULE"}, depends) EXCEPT !.derived = TRUE]

MCFactDef ==
    [remains_status |-> FactOf(1, User, {}),
     transport_destination |-> FactOf(1, User, {}),
     destination_grave_authorization |->
        [FactOf(4, Signals, {"transport_destination"}) EXCEPT
            !.authority = TRUE, !.accepts = {"OBTIDA"},
            !.relevant = {[fact |-> "transport_destination", in |-> {"JAZIGO_FAMILIA"}]}],
     transport_date_preference |-> FactOf(5, User, {}),
     requester_document |-> FactOf(6, User, {}),
     exhumation_purpose |-> FactOf(1, User \cup {"DERIVED_RULE"}, {}),
     surviving_spouse_status |->
        [FactOf(2, User \cup {"SYSTEM"}, {}) EXCEPT !.blocking = {"DESCONHECIDO"}],
     required_authorization_signatory |-> Derived({"surviving_spouse_status"}),
     exhumation_authorization |->
        [FactOf(2, Signals, {"surviving_spouse_status", "required_authorization_signatory",
                             "burial_reference", "exhumation_purpose"}) EXCEPT
            !.authority = TRUE, !.accepts = {"OBTIDA_CONJUGE", "OBTIDA_RESPONSAVEL"},
            !.rules = {[value |-> "OBTIDA_CONJUGE", when |->
                          {[fact |-> "required_authorization_signatory",
                            in |-> {"CONJUGE_E_RESPONSAVEL"}]}],
                       [value |-> "OBTIDA_RESPONSAVEL", when |->
                          {[fact |-> "required_authorization_signatory",
                            in |-> {"RESPONSAVEL"}]}]}],
     burial_reference |-> FactOf(5, User, {}),
     exumacao_required |-> Derived({"remains_status"}),
     concession_purpose |-> FactOf(1, User, {}),
     recadastro_status |->
        [FactOf(2, User \cup {"SYSTEM"}, {"concession_reference", "recadastro_holder_document"})
         EXCEPT !.authValues = {"OK"}, !.blocking = {"DESCONHECIDO"}, !.accepts = {"OK"}],
     concession_reference |-> FactOf(5, User, {}),
     recadastro_holder_document |-> FactOf(6, User, {}),
     recadastro_required |-> Derived({"recadastro_status"}),
     recadastro_verification_required |-> Derived({"recadastro_status"}),
     complaint_description |->
        [FactOf(5, User, {}) EXCEPT !.scope = "GOAL", !.repeatable = TRUE],
     other_subject_description |-> [FactOf(5, User, {}) EXCEPT !.scope = "GOAL"],
     service_hours_request |-> [FactOf(5, User, {}) EXCEPT !.scope = "GOAL"]]

GoalOf(topic, case, required) ==
    [topic |-> topic, case |-> case, informational |-> FALSE, explicit |-> FALSE,
     required |-> required, completion |-> <<>>, optional |-> {}]
MCGoalDef ==
    [TRANSPORTE |-> GoalOf("TRANSPORTE", "DECEASED",
        <<"remains_status", "transport_destination", "destination_grave_authorization",
          "transport_date_preference", "requester_document">>),
     EXUMACAO |-> GoalOf("EXUMACAO", "DECEASED",
        <<"exhumation_purpose", "surviving_spouse_status", "required_authorization_signatory",
          "exhumation_authorization", "burial_reference", "requester_document">>),
     CONCESSAO |-> GoalOf("CONCESSAO", "CONCESSION",
        <<"concession_purpose", "recadastro_status", "concession_reference",
          "requester_document">>),
     RECADASTRO |-> [GoalOf("RECADASTRO", "CONCESSION",
        <<"concession_reference", "recadastro_holder_document">>) EXCEPT
            !.completion = <<"recadastro_status">>,
            !.optional = {"burial_reference", "remains_status"}],
     RECLAMACAO |-> GoalOf("RECLAMACOES", "none", <<"complaint_description">>),
     OUTROS_ASSUNTOS |-> GoalOf("OUTROS_ASSUNTOS", "none", <<"other_subject_description">>),
     INFO_HORARIO |-> [GoalOf("OUTROS_ASSUNTOS", "none", <<"service_hours_request">>)
                         EXCEPT !.informational = TRUE]]

Derive(fact, value, from) ==
    [op |-> "assert_derived_fact", fact |-> fact, value |-> value, from |-> from]
Subflow(goal) == [op |-> "push_goal", goal |-> goal, suspend |-> TRUE, returns |-> TRUE]
Rel(name, goal, statuses, fact, values, effects) ==
    [name |-> name, goal |-> goal, statuses |-> statuses,
     when |-> {[fact |-> fact, in |-> values]}, effects |-> effects, onChild |-> <<>>]
MCRelations ==
    << Rel("CONCESSAO_REQUIRES_RECADASTRO", "CONCESSAO", OpenStatuses,
           "recadastro_status", {"PENDENTE"},
           <<Derive("recadastro_required", "SIM", {"recadastro_status"}),
             Subflow("RECADASTRO")>>),
       Rel("CONCESSAO_RECADASTRO_UNKNOWN", "CONCESSAO", {"ACTIVE", "WAITING"},
           "recadastro_status", {"DESCONHECIDO"},
           <<Derive("recadastro_verification_required", "SIM", {"recadastro_status"})>>),
       Rel("TRANSPORTE_REQUIRES_EXUMACAO", "TRANSPORTE", {"ACTIVE", "SUSPENDED"},
           "remains_status", {"SEPULTADO"},
           <<Derive("exumacao_required", "SIM", {"remains_status"}),
             Derive("exhumation_purpose", "TRANSPORTE", {"remains_status"}),
             Subflow("EXUMACAO")>>),
       Rel("TRANSPORTE_ALREADY_EXHUMED", "TRANSPORTE", {"ACTIVE", "SUSPENDED"},
           "remains_status", {"EXUMADO"},
           <<Derive("exumacao_required", "NAO", {"remains_status"}),
             [op |-> "satisfy_dependency", goal |-> "EXUMACAO",
              reason |-> "DEPENDENCY_SATISFIED"]>>),
       Rel("EXUMACAO_SIGNATORY_SPOUSE_ALIVE", "EXUMACAO", OpenStatuses,
           "surviving_spouse_status", {"VIVO"},
           <<Derive("required_authorization_signatory", "CONJUGE_E_RESPONSAVEL",
                    {"surviving_spouse_status"})>>),
       Rel("EXUMACAO_SIGNATORY_NO_SPOUSE", "EXUMACAO", OpenStatuses,
           "surviving_spouse_status", {"FALECIDO"},
           <<Derive("required_authorization_signatory", "RESPONSAVEL",
                    {"surviving_spouse_status"})>>) >>
MCResolution ==
    [f \in DOMAIN MCFactDef |->
        CASE f = "destination_grave_authorization" -> "ACTION_COLLECT_GRAVE_AUTHORIZATION"
          [] f \in {"exhumation_authorization", "surviving_spouse_status"} ->
                "ACTION_COLLECT_EXHUMATION_AUTHORIZATION"
          [] f = "recadastro_status" -> "ACTION_VERIFY_RECADASTRO"
          [] OTHER -> "none"]

\* what the citizen says, what is concluded from it, what is decided on both
MCLevel ==
    [f \in DOMAIN MCFactDef |->
        CASE MCFactDef[f].authority \/ f = "recadastro_status" -> 2
          [] f \in {"required_authorization_signatory", "exumacao_required",
                    "exhumation_purpose"} -> 1
          [] f \in {"recadastro_required", "recadastro_verification_required"} -> 3
          [] OTHER -> 0]
ASSUME CatalogInLayers == Layered(MCLevel) /\ SubflowsReturn

Fact(code, value) == [code |-> code, value |-> value, source |-> "default",
                      confidence |-> "default", authoritative |-> FALSE]
=============================================================================
