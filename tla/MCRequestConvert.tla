--------------------------- MODULE MCRequestConvert -------------------------
(***************************************************************************)
(* One request with every conversation, and every request with the         *)
(* shortest conversations.                                                 *)
(***************************************************************************)
EXTENDS RequestConvert

NoEffort == [flat |-> "", nested |-> "", output |-> "", camel |-> "", thinking |-> "",
             adaptive |-> FALSE]

Plain == [model |-> <<"grok-4.6">>, tools |-> {"lookup"}, choice |-> "auto",
          effort |-> NoEffort, turns |-> 1, blocks |-> 1]

Endings == UNION {[1 .. n -> NameSuffixes] : n \in 0 .. 3}

Names == {route \o <<base>> \o suffixes :
            route \in {<<>>, <<"route/">>},
            base \in DOMAIN Bases \cup {"grok-3"}, suffixes \in Endings}

\* Every word either table knows, and one that none does.
Words ==
  {"none", "off", "disabled", "false", "0", "minimal", "min", "low", "lite", "medium", "med",
   "high", "normal", "standard", "default", "auto", "xhigh", "max", "maximum", "ultra",
   "highest", "turbo"}

Efforts ==
  {NoEffort} \cup {[NoEffort EXCEPT !.flat = w] : w \in Words}
  \cup [flat : {"", "low"}, nested : {"", "max"}, output : {"", "medium"},
        camel : {"", "low"}, thinking : {"", "normal"}, adaptive : BOOLEAN]

EveryRequest ==
  {[Plain EXCEPT !.turns = 3, !.blocks = 3]}
  \cup {[Plain EXCEPT !.model = name] : name \in Names}
  \cup {[Plain EXCEPT !.tools = tools, !.choice = choice] :
          tools \in SUBSET {"", "lookup"},
          choice \in ToolChoices}
  \cup {[Plain EXCEPT !.model = <<base>>, !.effort = effort] :
          base \in {"grok-4.6", "grok-4.5", "composer-2.5"}, effort \in Efforts}
=============================================================================
