----------------------------- MODULE Classifier -----------------------------
(***************************************************************************)
(* Which requests are prompts and which are background work                *)
(* (computecop/classifier.py). A request is reduced to the hints that the  *)
(* classifier looks at; the confidence and the signals it reports are left *)
(* out. It has no state.                                                   *)
(***************************************************************************)
EXTENDS Sequences

\* What a field that names a class or a priority says: nothing, or one of the
\* values that stand for a prompt or for background work, or something else.
Said == {"nothing", "prompt", "background", "other"}

\* The six such fields, a header that flags automation, the user agent of one,
\* two flags in the metadata, and whether the body looks like a chat prompt.
HintSet ==
  [headerClass : Said, headerPriority : Said, metaClass : Said, metaPriority : Said,
   rootClass : Said, rootPriority : Said,
   flagged : BOOLEAN, robot : BOOLEAN, interactive : BOOLEAN, background : BOOLEAN,
   chat : BOOLEAN]

MetadataSet ==
  [class : {"prompt", "background"}, priority : {"foreground", "interactive", "background"}]

\* _first_value: later fields count only if the earlier ones say nothing.
Explicit(h) ==
  LET said == SelectSeq(<<h.headerClass, h.headerPriority, h.metaClass, h.metaPriority,
                          h.rootClass, h.rootPriority>>, LAMBDA v : v # "nothing")
  IN  IF said = <<>> THEN "nothing" ELSE Head(said)

ForegroundPrompt  == [class |-> "prompt", priority |-> "foreground"]
InteractivePrompt == [class |-> "prompt", priority |-> "interactive"]
BackgroundWork    == [class |-> "background", priority |-> "background"]

\* Mutant of Classify: doubtful requests are background work that goes first.
ClassifyHastily(h) ==
  CASE Explicit(h) = "prompt" -> ForegroundPrompt
    [] Explicit(h) = "background" \/ h.flagged \/ h.robot -> BackgroundWork
    [] OTHER -> [class |-> IF h.chat THEN "prompt" ELSE "background", priority |-> "interactive"]

\* _classify_rich: the first rule that applies. A field that says something else
\* hides the fields after it and decides nothing.
Classify(h) ==
  IF Explicit(h) = "prompt" THEN ForegroundPrompt
  ELSE IF Explicit(h) = "background" \/ h.flagged \/ h.robot THEN BackgroundWork
  ELSE IF h.interactive \/ (h.chat /\ ~h.background) THEN InteractivePrompt
  ELSE BackgroundWork

=============================================================================
