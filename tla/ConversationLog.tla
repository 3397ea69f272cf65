--------------------------- MODULE ConversationLog ---------------------------
(***************************************************************************)
(* What the official runtime promises of one conversation, with no tables, *)
(* locks, revisions or processes: the citizen's messages and the           *)
(* operator's commands take effect one after the other, each at most once, *)
(* and the conversation belongs to the bot or to the team.  Whatever takes *)
(* effect may hand the conversation to the team; once the log has begun,   *)
(* only a RESUME hands it back.                                            *)
(***************************************************************************)
EXTENDS Sequences

CONSTANTS Inputs, Resumes

VARIABLES
    log,    \* the inputs that took effect, in order
    owner   \* who answers the citizen

vars == <<log, owner>>

Owners == {"bot", "team"}

Init == log = <<>> /\ owner = "bot"

Logged(x) == \E k \in DOMAIN log : log[k] = x

Absorb(x) ==
    /\ ~ Logged(x)
    /\ log' = Append(log, x)
    /\ owner' \in IF x \in Resumes THEN {"bot"} ELSE {owner, "team"}

TakeOver == owner' = "team" /\ UNCHANGED log

\* Before its first turn the conversation is still a row of the old panel.
HandBack == log = <<>> /\ owner' = "bot" /\ UNCHANGED log

Next == (\E x \in Inputs : Absorb(x)) \/ TakeOver \/ HandBack

Spec == Init /\ [][Next]_vars
=============================================================================
