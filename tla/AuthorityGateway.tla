-------------------------- MODULE AuthorityGateway --------------------------
(***************************************************************************)
(* The gateway to the official catalogue (santana-authority-gateway) and   *)
(* the two who use it: the attendance, which asks the missing criteria one *)
(* at a time and registers what the citizen declares, and the information  *)
(* lane of the official turn, which answers for the case at hand.          *)
(* A catalogue is read once and kept; days pass under it.  A value, a text *)
(* and a criterion are members of small sets.                              *)
(***************************************************************************)
EXTENDS Integers, FiniteSets

CONSTANTS
    Catalogues,  \* the catalogues that may be published
    Questions,   \* kinds of information asked for, declared or not
    LastDay,     \* bound on the days
    Contracts,   \* tool contracts: its name, its parameters, those required
    Arguments,   \* raw arguments of a tool call: null, a list or a mapping
    FactSpecs,   \* fact -> what the domain catalogue says of it
    Declared,    \* values a citizen declares: as written and folded
    Messages     \* messages the information lane looks at

\* a document is finite, its entries are numbered and each asks a few criteria
ASSUME AuthorityAssumption ==
    \A c \in Catalogues :
        /\ IsFiniteSet(c.entries)
        /\ \A e \in c.entries : e.id \in Nat /\ IsFiniteSet(DOMAIN e.applies)

Fixed == "EXUMACAO"   \* the only service of this catalogue
NoEntry == [id |-> 0]
Cases == {"case A", "case B"}
UserSources == {"USER_EXPLICIT", "USER_CORRECTION"}
\* surviving_spouse_status of a case; INEXISTENTE counts as FALECIDO
SpouseFacts == [value : {"VIVO", "FALECIDO"}, confirmed : BOOLEAN, disputed : BOOLEAN]
Unknown == [value |-> "none", confirmed |-> FALSE, disputed |-> FALSE]

VARIABLES
    published,   \* the catalogue the process reads
    day,         \* the civil date of the caller
    subject,     \* the kind of information the attendance asks for
    context,     \* what it has said of the case: criterion -> value
    resposta,      \* the last answer, with the day of its reference
    caso,        \* the facts registered so far: fact -> value
    outcome,     \* of the last registration
    talk,        \* what the official route knows: goal, case, spouses, owner
    lane         \* the reply of the information lane in this turn
authorityVars == <<published, day, subject, context, resposta, caso, outcome, talk, lane>>

-----------------------------------------------------------------------------
(* The catalogue (catalogo/carregar.ts, canonico.ts).                      *)

\* carregarDeBytes refuses the whole document ...
IsRefused(c) ==
    \/ c.schema # "1.0"
    \/ \E e \in c.entries :
          \/ e.source \notin DOMAIN c.sources
          \/ c.sources[e.source] /\ e.kind \notin DOMAIN c.kinds
\* ... or drops, at the load, the entries of sources nobody approved
LoadedUnapproved(c) == c.entries
Loaded(c) == {e \in c.entries : c.sources[e.source]}

\* in force on both end days
IsInForce(e, when) == e.from <= when /\ when <= e.until
Specificity(e) == Cardinality(DOMAIN e.applies)

-----------------------------------------------------------------------------
(* consultar: excluded, determined and candidate entries (consulta.ts).    *)

IsExcluded(e, known) == \E f \in DOMAIN e.applies \cap DOMAIN known : known[f] # e.applies[f]
IsDetermined(e, known) == DOMAIN e.applies \subseteq DOMAIN known

Answered(status, reason, entry) ==
    [status |-> status, reason |-> reason, entry |-> entry,
     missing |-> {}, options |-> << >>, day |-> day]
Unavailable(reason) == Answered("NOT_AVAILABLE", reason, NoEntry)

\* the options of each missing criterion, of the entries still possible
Options(candidates, missing) ==
    [f \in missing |-> {e.applies[f] : e \in {o \in candidates : f \in DOMAIN o.applies}}]
Missing(candidates, known) == (UNION {DOMAIN e.applies : e \in candidates}) \ DOMAIN known
NeedsContext(candidates, known) ==
    LET missing == Missing(candidates, known) IN
    [Answered("NEEDS_CONTEXT", "CONTEXTO_INSUFICIENTE", NoEntry)
        EXCEPT !.missing = missing, !.options = Options(candidates, missing)]

\* the most specific ones speak, and only with one voice
Determine(determined) ==
    LET finalists == {e \in determined : \A o \in determined : Specificity(o) <= Specificity(e)}
        chosen == CHOOSE e \in finalists : \A o \in finalists : e.id <= o.id IN
    IF Cardinality({e.value : e \in finalists}) > 1
    THEN Answered("CONFLICT", "FONTES_OFICIAIS_EM_CONFLITO", NoEntry)
    ELSE Answered("AVAILABLE", "none", chosen)

ConsultAnyCandidate(kind, known) ==
    LET current == {e \in Loaded(published) : e.kind = kind /\ IsInForce(e, day)}
        determined == {e \in current : ~IsExcluded(e, known) /\ IsDetermined(e, known)} IN
    CASE determined # {} -> Determine(determined)
      [] determined = {} /\ Missing(current, known) # {} -> NeedsContext(current, known)
      [] OTHER -> Unavailable("CONTEXTO_INCOMPATIVEL")
Consult(kind, known) ==
    LET ofKind == {e \in Loaded(published) : e.kind = kind}
        current == {e \in ofKind : IsInForce(e, day)}
        possible == {e \in current : ~IsExcluded(e, known)}
        determined == {e \in possible : IsDetermined(e, known)} IN
    CASE kind \notin DOMAIN published.kinds -> Unavailable("TIPO_DESCONHECIDO")
      [] kind \in DOMAIN published.kinds /\ ofKind = {} ->
            Unavailable(IF published.kinds[kind] THEN "SEM_FONTE_OFICIAL" ELSE "FORA_DE_VIGENCIA")
      [] ofKind # {} /\ current = {} -> Unavailable("FORA_DE_VIGENCIA")
      [] determined # {} -> Determine(determined)
      [] determined = {} /\ possible # {} -> NeedsContext(possible, known)
      [] current # {} /\ possible = {} -> Unavailable("CONTEXTO_INCOMPATIVEL")

-----------------------------------------------------------------------------
(* The attendance: a tool call, then one criterion per turn.               *)

\* canonizarArgumentos: nothing is cleaned up, what is outside is refused
IsCanonical(tool, raw) ==
    \/ raw.form = "null" /\ (tool.parameters = {} \/ tool.required = {})
    \/ /\ raw.form = "mapping"
       /\ DOMAIN raw.keys \subseteq tool.parameters
       /\ \A a \in DOMAIN raw.keys : raw.keys[a] \notin {"null", "__missing__"}
       /\ tool.required \subseteq DOMAIN raw.keys

Idle == [status |-> "none", reason |-> "none", entry |-> NoEntry,
         missing |-> {}, options |-> << >>, day |-> 0]
NoReply == [status |-> "none", entry |-> NoEntry, kind |-> "none"]

AuthorityInit ==
    /\ published \in Catalogues /\ day = 1
    /\ subject = "none" /\ context = << >> /\ resposta = Idle
    /\ caso = << >> /\ outcome = "none"
    /\ talk = [goal |-> "none", case |-> "none", human |-> FALSE,
               spouse |-> [c \in Cases |-> Unknown]]
    /\ lane = NoReply

NextDay ==
    /\ day < LastDay /\ day' = day + 1
    /\ UNCHANGED <<published, subject, context, resposta, caso, outcome, talk, lane>>

\* consultarViaTool, with nothing known of the case yet; a catalogue that cannot
\* be read throws, and there is no answer
ConsultByTool(kind, tool, raw) ==
    /\ ~IsRefused(published)
    /\ subject' = kind /\ context' = << >>
    /\ resposta' = IF IsCanonical(tool, raw) THEN Consult(kind, << >>)
                 ELSE Unavailable("ARGUMENTOS_NAO_CANONICOS")
    /\ UNCHANGED <<published, day, caso, outcome, talk, lane>>

\* the citizen chooses one of the options of one missing criterion
Tell(f, option) ==
    LET known == [g \in DOMAIN context \cup {f} |-> IF g = f THEN option ELSE context[g]] IN
    /\ resposta.status = "NEEDS_CONTEXT" /\ context' = known
    /\ resposta' = Consult(subject, known)
    /\ UNCHANGED <<published, day, subject, caso, outcome, talk, lane>>
TellMissing == \E f \in resposta.missing : \E option \in resposta.options[f] : Tell(f, option)

-----------------------------------------------------------------------------
(* registrarFato: each barrier refuses under its own code (escrita.ts).    *)

RefusalOf(fact, declared, source) ==
    LET spec == FactSpecs[fact] IN
    IF spec.authoritative THEN "FATO_AUTORITATIVO"
    ELSE IF spec.derived \/ ~spec.extractable THEN "FATO_NAO_GRAVAVEL"
    ELSE IF source \notin UserSources THEN "ORIGEM_INVALIDA"
    ELSE IF declared.text = "" THEN "VALOR_VAZIO"
    ELSE IF spec.enum /\ declared.folded \notin spec.allowed THEN "VALOR_FORA_DO_DOMINIO"
    ELSE "none"

\* the domain is asked of the folded text; the text as written is stored
Register(fact, declared, source) ==
    LET refusal == IF fact \in DOMAIN FactSpecs THEN RefusalOf(fact, declared, source)
                   ELSE "FATO_DESCONHECIDO" IN
    /\ ~IsRefused(published)
    /\ outcome' = IF refusal = "none" THEN "ACCEPTED" ELSE refusal
    /\ caso' = IF refusal # "none" THEN caso
               ELSE [f \in DOMAIN caso \cup {fact} |->
                        IF f = fact THEN declared.text ELSE caso[f]]
    /\ UNCHANGED <<published, day, subject, context, resposta, talk, lane>>

-----------------------------------------------------------------------------
(* The information lane of the official turn (official_information.ts).    *)

\* currentContext: only the case at hand, and only what is certain of it
LaneContext(spouse) ==
    CASE spouse = "VIVO" -> [servico |-> Fixed, conjuge |-> "VIVO"]
      [] spouse = "FALECIDO" -> [servico |-> Fixed, conjuge |-> "SEM_CONJUGE"]
      [] OTHER -> [servico |-> Fixed]
CertainSpouse(t, c) ==
    LET s == t.spouse[c] IN IF s.confirmed /\ ~s.disputed THEN s.value ELSE "none"
SpouseOfAnyCase(t) ==
    IF \E c \in Cases : CertainSpouse(t, c) # "none"
    THEN CertainSpouse(t, CHOOSE c \in Cases : CertainSpouse(t, c) # "none") ELSE "none"
SpouseOf(t) ==
    IF t.goal \in {"EXUMACAO", "TRANSPORTE"} /\ t.case \in Cases
    THEN CertainSpouse(t, t.case) ELSE "none"

IsOurs(topic, kind) ==
    \/ topic = "EXUMACAO"
    \/ topic = "OSSUARIO" /\ kind = "OSSUARIO"
    \/ topic = "TRANSPORTE" /\ kind \in {"TRANSPORTE", "JAZIGO_DESTINO", "RESTOS_JA_EXUMADOS"}

\* the topic of the message or the one the conversation was on (both come with the
\* message here), else that of its goal
TopicOf(message) ==
    CASE message.topic # "none" -> message.topic
      [] message.topic = "none" /\ talk.goal # "none" -> talk.goal
      [] OTHER -> "OUTROS_ASSUNTOS"

Replied(status, entry, kind) == [status |-> status, entry |-> entry, kind |-> kind]
LaneReply(message) ==
    LET kind == message.kind
        found == Consult(kind, LaneContext(SpouseOf(talk))) IN
    IF ~IsOurs(TopicOf(message), kind) \/ IsRefused(published)
    THEN Replied("NOT_AVAILABLE", NoEntry, kind)
    ELSE IF found.status = "AVAILABLE" /\ (kind = "PRECO" \/ found.entry.value = "no text")
    THEN Replied("NOT_AVAILABLE", NoEntry, kind)
    ELSE Replied(found.status, found.entry, kind)

\* a message of a conversation people own, or one that asks for something else
\* too, is left to the interpreter
AskLane(message) ==
    /\ ~talk.human /\ ~message.operational /\ message.question /\ message.kind # "none"
    /\ lane' = LaneReply(message)
    /\ UNCHANGED <<published, day, subject, context, resposta, caso, outcome, talk>>
\* the conversation goes on: another turn
Talk(new) ==
    /\ talk' = new /\ lane' = NoReply
    /\ UNCHANGED <<published, day, subject, context, resposta, caso, outcome>>
LearnSpouse(s) == talk.case \in Cases /\ Talk([talk EXCEPT !.spouse[talk.case] = s])
TurnTo(goal, c) == Talk([talk EXCEPT !.goal = goal, !.case = c])
HandOver == ~talk.human /\ Talk([talk EXCEPT !.human = TRUE])

Attend == \/ \E kind \in Questions, tool \in Contracts, raw \in Arguments :
                ConsultByTool(kind, tool, raw)
          \/ TellMissing
Write == \E fact \in DOMAIN FactSpecs \cup {"unknown"}, d \in Declared,
            source \in UserSources \cup {"SYSTEM"} : Register(fact, d, source)
Inform == \/ \E message \in Messages : AskLane(message)
          \/ \E s \in SpouseFacts : LearnSpouse(s)
          \/ \E goal \in {"EXUMACAO", "TRANSPORTE", "RECADASTRO"}, c \in Cases : TurnTo(goal, c)
          \/ HandOver
AuthorityNext == NextDay \/ Attend \/ Write \/ Inform
AuthoritySpec == AuthorityInit /\ [][AuthorityNext]_authorityVars

-----------------------------------------------------------------------------
(* What an answer is worth.                                                *)

\* An entry of the published document that an approved source states of this
\* case on that day.
Speaks(e, kind, known, when) ==
    /\ e.source \in DOMAIN published.sources /\ published.sources[e.source]
    /\ e.kind = kind /\ e.from <= when /\ when <= e.until
    /\ \A f \in DOMAIN e.applies : f \in DOMAIN known /\ known[f] = e.applies[f]

\* What is answered is the word of an approved source, in force on the day it was
\* asked for, about this case; no source that knows the case as well says
\* otherwise, and none knows it better, whatever was asked and chosen before
\* (consultar, carregarDeBytes).
AnswersAreOfficial ==
    resposta.status = "AVAILABLE" =>
        /\ Speaks(resposta.entry, subject, context, resposta.day)
        /\ \A o \in published.entries : Speaks(o, subject, context, resposta.day) =>
              \/ Specificity(o) < Specificity(resposta.entry)
              \/ Specificity(o) = Specificity(resposta.entry) /\ o.value = resposta.entry.value

\* On one day, an option the gateway offers leads on: whichever criterion is asked
\* first and whichever of its own options is chosen, the case is never found to
\* fit no entry, and what is still missing has shrunk (opcoes_por_campo).
OptionsLeadOn ==
    [][(/\ resposta.status = "NEEDS_CONTEXT" /\ resposta.day = day /\ subject' = subject
        /\ DOMAIN context \subseteq DOMAIN context' /\ context' # context) =>
          /\ resposta'.status # "NOT_AVAILABLE"
          /\ resposta'.missing \subseteq resposta.missing /\ resposta'.missing # resposta.missing
      ]_authorityVars

\* The lane states a rule that depends on the spouse only when the fact is
\* confirmed and undisputed in the case it answers for, never from another
\* deceased's, and never states a price (currentContext, officialInformationReply).
LaneSpeaksForTheCase ==
    LET e == lane.entry IN
    lane.status = "AVAILABLE" =>
        /\ e.kind = lane.kind /\ lane.kind # "PRECO" /\ ~talk.human
        /\ published.sources[e.source]
        /\ "conjuge" \in DOMAIN e.applies =>
              talk.spouse[talk.case] =
                 [value |-> IF e.applies["conjuge"] = "VIVO" THEN "VIVO" ELSE "FALECIDO",
                  confirmed |-> TRUE, disputed |-> FALSE]
=============================================================================
