------------------------------- MODULE MCSide -------------------------------
(* The components beside the official route share no state: a behaviour     *)
(* follows one of them, the others stay as they are.                        *)
(* Ledger: two processes, two proposals, one more under a used id and one   *)
(* with a used nonce; one "sim" that answers both prompts' thread.          *)
(* Gateway: three callers of one key.  Shadow: two runners of one cohort,   *)
(* with the same episodes in another order, one of another content.         *)
(* Authority: three catalogues, of which one cannot be read; the attendance,*)
(* the registrations and the information lane are parts of their own.       *)
(* Session: the jobs of inactivity are one part; the requests, with one     *)
(* message of the citizen that moves the session, another.                  *)
EXTENDS MCAttachments, ConfirmationLedger, ActionGateway, ShadowStore, AuthorityGateway,
        ShadowSession

CONSTANTS r1, r2   \* runners
VARIABLE part      \* the component this behaviour follows
sideVars == <<vars, ledgerVars, gatewayVars, shadowVars, authorityVars, sessionVars, part>>

Proposed(id, prompt, proposal, nonce) ==
    [id |-> id, party |-> "citizen", prompt |-> prompt, proposal |-> proposal,
     nonce |-> nonce, from |-> 1, until |-> 2]
McChallenge == {Proposed("c1", "p1", "v1", "n1"), Proposed("c2", "p1", "v2", "n2"),
                Proposed("c1", "p1", "v2", "n3")}
Signed(id, content, when, signature) ==
    [id |-> id, content |-> content, party |-> "citizen", reply |-> "p1", at |-> when,
     signature |-> signature, key |-> "k1"]
McEvent == {Signed("e1", "sim", 2, "valid"), Signed("e2", "sim", 1, "valid"),
            Signed("e3", "sim", 2, "forged"), Signed("e4", "sim", 2, "none"),
            Signed("e5", "confirmo", 3, "valid"), Signed("e1", "nao", 2, "valid")}
Confirmed(ch, e) == [challenge |-> ch, event |-> e]
McAsked ==
    [op : {"open"}, key : {"k1", "k2"}] \cup [op : {"issue"}, challenge : McChallenge]
    \cup {[op |-> "evaluate", id |-> c, event |-> e, text |-> e.content] :
             c \in {"c1", "c2"}, e \in McEvent}
    \cup {[op |-> "authorize", id |-> ch.id, party |-> "citizen", proposal |-> v,
           attestation |-> Confirmed(ch, Signed("e1", "sim", 2, "valid"))] :
             ch \in McChallenge, v \in {"v1"}}

Asking(tool, payload, confirmed, receipt) ==
    [tool |-> tool, key |-> "k1", payload |-> payload, confirmed |-> confirmed,
     receipt |-> receipt, claims |-> {"PAID"}]
McRequest == {Asking("payment.request", 1, TRUE, "payment_confirmation"),
              Asking("payment.request", 2, TRUE, "payment_confirmation"),
              Asking("payment.request", 1, FALSE, "payment_confirmation"),
              [Asking("handoff.request", 1, FALSE, "handoff_acceptance") EXCEPT !.claims = {}]}

Episode(e, c, x) == [event |-> e, cohort |-> c, content |-> x]
McLines == (r1 :> <<Episode("e1", "A", 1), Episode("e2", "A", 1)>>)
           @@ (r2 :> <<Episode("e2", "A", 1), Episode("e1", "A", 2)>>)
McCohort == r1 :> "A" @@ r2 :> "A"
McMax == r1 :> 0 @@ r2 :> 0

Official(id, kind, applies, value, source, from, until) ==
    [id |-> id, kind |-> kind, applies |-> applies, value |-> value, source |-> source,
     from |-> from, until |-> until]
McEntries ==
    {Official(1, "ASSINATURA", << >>, "depends", "a", 1, 2),
     Official(2, "ASSINATURA", [conjuge |-> "VIVO"], "both sign", "a", 1, 2),
     Official(3, "ASSINATURA", [conjuge |-> "SEM_CONJUGE"], "one signs", "a", 1, 1),
     Official(4, "PRECO", [servico |-> "EXUMACAO", modalidade |-> "ossuario", tabela |-> "nova"],
              "not approved", "draft", 1, 2)}
    \cup {Official(4 + n, "PRECO", [servico |-> "EXUMACAO", modalidade |-> m, tabela |-> t],
                   <<m, t>>, "a", 1, IF n = 3 THEN 1 ELSE 2) :
             <<n, m, t>> \in {<<1, "gaveta", "nova">>, <<2, "terreno", "nova">>,
                              <<3, "gaveta", "antiga">>}}
    \cup {Official(8, "PRECO", [servico |-> "LAPIDE", modalidade |-> "placa"], "x", "a", 1, 2)}
McKinds == [ASSINATURA |-> TRUE, PRECO |-> TRUE, HORARIO |-> FALSE, PRAZO |-> TRUE]
Catalogue(schema, entries) ==
    [schema |-> schema, sources |-> [a |-> TRUE, b |-> TRUE, draft |-> FALSE],
     kinds |-> McKinds, entries |-> entries]
McCatalogues ==
    {Catalogue("1.0", McEntries), Catalogue("2.0", McEntries),
     Catalogue("1.0", McEntries \cup
        {Official(9, "ASSINATURA", [conjuge |-> "VIVO"], "only one signs", "b", 2, 2),
         Official(10, "PRAZO", << >>, "no text", "b", 1, 2),
         Official(11, "PRECO", [servico |-> "EXUMACAO"], "flat", "b", 2, 2)})}
McContracts == {[parameters |-> {}, required |-> {}],
                [parameters |-> {"t", "u"}, required |-> {"t"}]}
Raw(form, keys) == [form |-> form, keys |-> keys]
McArguments == {Raw("null", << >>), Raw("list", << >>), Raw("mapping", << >>),
                Raw("mapping", [t |-> "x"]), Raw("mapping", [t |-> "__missing__"]),
                Raw("mapping", [t |-> "x", v |-> "y"])}
FactSpec(authoritative, derived, extractable, enum, allowed) ==
    [authoritative |-> authoritative, derived |-> derived, extractable |-> extractable,
     enum |-> enum, allowed |-> allowed]
McFactSpecs == [remains_status |-> FactSpec(FALSE, FALSE, TRUE, TRUE, {"EXUMADO"}),
                grave |-> FactSpec(FALSE, FALSE, TRUE, FALSE, {}),
                authorization |-> FactSpec(TRUE, FALSE, FALSE, TRUE, {"EXUMADO"}),
                signatory |-> FactSpec(FALSE, TRUE, FALSE, TRUE, {"EXUMADO"}),
                fixture |-> FactSpec(FALSE, FALSE, FALSE, FALSE, {})]
McDeclared == {[text |-> "exumado", folded |-> "EXUMADO"], [text |-> "?", folded |-> "?"],
               [text |-> "", folded |-> ""]}
Message(operational, question, kind, topic) ==
    [operational |-> operational, question |-> question, kind |-> kind, topic |-> topic]
McMessages ==
    {Message(FALSE, TRUE, kind, topic) :
        kind \in {"ASSINATURA", "PRECO", "PRAZO"}, topic \in {"none", "EXUMACAO"}}
    \cup {Message(FALSE, TRUE, "PRECO", "OSSUARIO"), Message(TRUE, TRUE, "PRECO", "EXUMACAO"),
          Message(FALSE, FALSE, "PRAZO", "none"), Message(FALSE, TRUE, "none", "none")}

SessionMoves(c) == \/ session.generation = 0 /\ BeginSchedule(c)
            \/ Schedule(c) \/ SkipSchedule(c) \/ ClaimJobs(c) \/ Look(c) \/ RunJobs(c)
ConsentNext == Consent \/ BecomeDue \/ SessionMoves(CHOOSE c \in Callers : TRUE)

SideInit == /\ Init /\ LedgerInit /\ GatewayInit /\ ShadowInit /\ AuthorityInit /\ SessionInit
            /\ \/ /\ part \in {"files", "ledger", "gateway", "shadow", "silence", "consent"}
                  /\ published = Catalogue("2.0", McEntries)
               \/ part = "attend"
               \/ /\ part \in {"write", "inform"}
                  /\ published # Catalogue("1.0", McEntries)
SideNext == /\ UNCHANGED part
            /\ \/ part = "files" /\ Next
                  /\ UNCHANGED <<ledgerVars, gatewayVars, shadowVars, authorityVars, sessionVars>>
               \/ part = "ledger" /\ LedgerNext
                  /\ UNCHANGED <<vars, gatewayVars, shadowVars, authorityVars, sessionVars>>
               \/ part = "gateway" /\ GatewayNext
                  /\ UNCHANGED <<vars, ledgerVars, shadowVars, authorityVars, sessionVars>>
               \/ part = "shadow" /\ ShadowNext
                  /\ UNCHANGED <<vars, ledgerVars, gatewayVars, authorityVars, sessionVars>>
               \/ /\ \/ part = "attend" /\ (NextDay \/ Attend)
                     \/ part = "write" /\ (NextDay \/ Write)
                     \/ part = "inform" /\ (NextDay \/ Inform)
                  /\ UNCHANGED <<vars, ledgerVars, gatewayVars, shadowVars, sessionVars>>
               \/ /\ \/ part = "silence" /\ Silence
                     \/ part = "consent" /\ ConsentNext
                  /\ UNCHANGED <<vars, ledgerVars, gatewayVars, shadowVars, authorityVars>>
SideSpec == /\ SideInit /\ [][SideNext]_sideVars
            /\ LedgerFairness /\ GatewayFairness
=============================================================================
