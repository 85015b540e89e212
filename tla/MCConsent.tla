------------------------------ MODULE MCConsent ------------------------------
(* Two agents for TLC, and the requests their tools make. An edit asks to be  *)
(* allowed everywhere, a move names two files and asks for one of them, an    *)
(* outside directory asks for itself.                                         *)
EXTENDS Consent

CONSTANTS a, b, s1, s2

Careful == <<>>
Editor  == <<[kind |-> "edit", pattern |-> "*", action |-> "allow"],
             [kind |-> "*", pattern |-> b, action |-> "deny"]>>

MCRulesets == {Careful, Editor}

Info(session, kind, resources, always, rules) ==
  [session |-> session, kind |-> kind, resources |-> resources,
   always |-> always, rules |-> rules]

MCAsked ==
  {Info(s, "edit", {a}, {"*"}, Careful) : s \in {s1, s2}}
    \cup {Info(s1, "edit", {a, b}, {a}, Careful), Info(s1, "edit", {b}, {}, Editor),
          Info(s1, "external_directory", {a}, {a}, Careful),
          Info(s1, "external_directory", {a, b}, {"*"}, Careful)}

=============================================================================
