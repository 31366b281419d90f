------------------------------ MODULE MCChatTurn ------------------------------
EXTENDS ChatTurn

H(value, type) == [value |-> value, type |-> type]

(* A name within a longer one; a card number that begins with the same     *)
(* word as a number of the other kind.                                     *)
MCHints == <<H(<<"lee">>, "NAME"), H(<<"ann", "lee">>, "NAME")>>
MCRules == <<H(<<"12", "34">>, "CARD"), H(<<"12">>, "SSN")>>
MCTexts == {<<"ann", "lee", "12">>, <<"12", "34", "w">>}

(* What NothingLeaks assumes of the rules.                                 *)
ASSUME MCRulesAssumption == NoRuleOverlapsItself

(* What RestoringUndoesMasking assumes: placeholders that read apart, and  *)
(* texts without their closing bracket.                                    *)
ASSUME MCPlaceholdersAssumption == PlaceholdersReadApart
ASSUME MCBracketsAssumption == BracketsAreReserved

Base == [company |-> "enforce", agent |-> "unset", env |-> "unset", hatch |-> FALSE, plugin |-> FALSE,
         guard |-> "none", key |-> FALSE, scope |-> FALSE, manager |-> "none", keep |-> 2,
         seeded |-> FALSE, overlap |-> TRUE]

MCConfigs ==
  {Base,
   [Base EXCEPT !.company = "unset", !.agent = "detect-only", !.guard = "on", !.key = TRUE],
   [Base EXCEPT !.company = "off", !.agent = "strict", !.plugin = TRUE, !.hatch = TRUE, !.guard = "on",
         !.scope = TRUE, !.overlap = FALSE],
   [Base EXCEPT !.agent = "off", !.plugin = TRUE, !.hatch = TRUE, !.guard = "shadow", !.overlap = FALSE],
   [Base EXCEPT !.company = "off", !.guard = "open", !.manager = "summarizing", !.seeded = TRUE, !.overlap = FALSE],
   [Base EXCEPT !.company = "detect-only", !.plugin = TRUE, !.manager = "sliding", !.seeded = TRUE, !.overlap = FALSE],
   [Base EXCEPT !.company = "strict", !.manager = "sliding", !.keep = 3, !.seeded = TRUE],
   [Base EXCEPT !.manager = "summarizing", !.seeded = TRUE, !.keep = 1, !.overlap = FALSE]}
===============================================================================
