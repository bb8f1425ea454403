---------------------------- MODULE VisualControl ----------------------------
(***************************************************************************)
(* The visual fallback of portus-visual: a call takes a target from the    *)
(* system index, asks the policy, has the backend look at the target, gives*)
(* it the focus if it must, looks again, and only then captures the screen *)
(* or sends input (controller.rs, model.rs).  Several callers may use the  *)
(* library at the same time, the desktop changes on its own between any two*)
(* calls of the backend, and the backend and the audit sink may fail.      *)
(*                                                                         *)
(* The backend is a trait: what it answers is the desktop as it is, or an  *)
(* error, or the description of some other target.                         *)
(***************************************************************************)
EXTENDS Naturals

CONSTANTS
  Calls,                 \* calls of the library
  Targets,               \* references of windows and displays
  Nothing,               \* no target, no input
  Asked,                 \* the inputs of the calls
  Desktops,              \* what a target may look like
  InitialDesktops,       \* what the targets look like at first
  MAX_TEXT_INPUT_BYTES,
  MAX_KEY_CHORD_KEYS,
  MaxChanges,            \* bound on the changes of the desktop
  MaxVisualFaults        \* bound on the failures of the backend and the sink

Operations == {"capture", "pointer", "keyboard"}
Kinds == {"window", "display"}

\* What the desktop shows of a target; 0 by 0 stands for an empty geometry.
TargetStates ==
  [kind : Kinds, generation : Nat, sized : BOOLEAN, width : Nat, height : Nat,
   sensitivity : {"normal", "sensitive", "unknown"}]

\* An observation of the system index, as far as the library reads it.
IndexObservations ==
  [mine : BOOLEAN, freshness : {"live", "recent", "stale"},
   type : Kinds \cup {"other"}, named : BOOLEAN, clean : BOOLEAN,
   ref : Targets, generation : Nat, structured : BOOLEAN, fallback : BOOLEAN]

\* A call: its operation with the argument, the observation behind its target,
\* the justification, and the effect the caller's policy snapshot gives it.
VisualInputs ==
  [op : Operations, seen : IndexObservations, structured : BOOLEAN,
   why : {"no_structured_route", "structured_route_failed", "user_requested"},
   x : Nat, y : Nat, keys : [form : {"text", "chord"}, length : Nat, clean : BOOLEAN],
   keep : BOOLEAN, effect : {"allow", "prompt", "reject", "error"}]

ASSUME VisualAssumption ==
  /\ Nothing \notin Targets \cup VisualInputs /\ Desktops \subseteq TargetStates
  /\ InitialDesktops \subseteq [Targets -> Desktops]
  /\ Asked \subseteq VisualInputs

VARIABLES
  desktop,     \* what each target really is
  focused,     \* the target that has the focus
  turn,        \* the step each call is at
  input,       \* what each call was asked
  target,      \* the ValidatedGraphicalTarget a call holds
  answer,      \* what each call returned
  trail,       \* the audit records: pairs of a call and a result
  effects,     \* history: captures and inputs, with the desktop they met
  refocused,   \* history: the calls that asked for the focus
  moved,       \* history: the calls during which somebody else changed the
               \* desktop since the target was last looked at
  changes, visual_faults

visualVars == <<desktop, focused, turn, input, target, answer, trail, effects,
                refocused, moved, changes, visual_faults>>

VisualErrors ==
  {"invalid_target", "stale_target", "target_not_focused", "sensitive_target", "invalid_action",
   "structured_control_preferred", "permission_denied", "approval_required", "policy", "artifact",
   "audit", "audit_after_side_effect", "backend"}

Observation(t) == [ref |-> t, at |-> desktop[t], focused |-> focused = t]

(***************************************************************************)
(* The checks.                                                             *)
(***************************************************************************)
\* A target reference and a generation: not empty, bounded, one line.
validate_target_text(o) == o.clean

\* Why an observation of the index makes no target for this principal.
expectation_from_index(o) ==
  IF ~o.mine THEN "invalid_target"
  ELSE IF o.freshness \notin {"live", "recent"} THEN "stale_target"
  ELSE IF \/ o.type \notin Kinds \/ ~o.named \/ ~validate_target_text(o)
          \/ o.type = "window" /\ ~o.fallback
  THEN "invalid_target" ELSE "none"

validate_keyboard(k) ==
  /\ k.length > 0 /\ k.clean
  /\ k.length <= IF k.form = "text" THEN MAX_TEXT_INPUT_BYTES ELSE MAX_KEY_CHORD_KEYS

\* Pointer input lies inside the current geometry of the target, which it needs.
validate_pointer(i, s) ==
  IF ~s.sized \/ s.width = 0 \/ s.height = 0 THEN "invalid_target"
  ELSE IF i.x >= s.width \/ i.y >= s.height THEN "invalid_action" ELSE "none"

\* Visual control is a fallback: a structured route comes first.
validate_common(i) ==
  /\ validate_target_text(i.seen)
  /\ i.why = "no_structured_route" => ~i.seen.structured /\ ~i.structured

\* What a call is refused for before the policy is asked.
Refusal(i) ==
  IF expectation_from_index(i.seen) # "none" THEN expectation_from_index(i.seen)
  ELSE IF i.op # "capture" /\ i.seen.type # "window" THEN "invalid_target"
  ELSE IF i.op = "keyboard" /\ ~validate_keyboard(i.keys) THEN "invalid_action"
  ELSE IF ~validate_common(i) THEN "structured_control_preferred" ELSE "none"

require_normal_screen(s) == s.sensitivity = "normal"

(***************************************************************************)
(* Ending a call.                                                          *)
(***************************************************************************)
Return(c, code) ==
  /\ turn' = [turn EXCEPT ![c] = "done"]
  /\ answer' = [answer EXCEPT ![c] = code]

\* The record is written and the call returns code, or the sink fails and the
\* call returns the audit error instead.
Record(c, outcome, code, failure) ==
  \/ /\ trail' = trail \cup {<<c, outcome>>}
     /\ Return(c, code)
     /\ UNCHANGED visual_faults
  \/ /\ visual_faults < MaxVisualFaults
     /\ visual_faults' = visual_faults + 1
     /\ Return(c, failure)
     /\ UNCHANGED trail

\* A failed backend call is one fault, and a failed record of it another.
RecordFailure(c, code, failure) ==
  /\ visual_faults < MaxVisualFaults
  /\ \/ /\ trail' = trail \cup {<<c, "failed">>}
        /\ Return(c, code)
        /\ visual_faults' = visual_faults + 1
     \/ /\ visual_faults + 1 < MaxVisualFaults
        /\ visual_faults' = visual_faults + 2
        /\ Return(c, failure)
        /\ UNCHANGED trail

Goto(c, label) ==
  turn' = [turn EXCEPT ![c] = label] /\ UNCHANGED <<answer, trail, visual_faults>>

(***************************************************************************)
(* The steps of a call.                                                    *)
(***************************************************************************)
\* The argument checks, and the decision of the policy.  A prompt and a reject
\* are recorded; an action the policy does not know is an error.
authorize(c, i) ==
  CASE i.effect = "allow"  -> Goto(c, "revalidate")
    [] i.effect = "prompt" -> Record(c, "approval_required", "approval_required", "audit")
    [] i.effect = "reject" -> Record(c, "denied", "permission_denied", "audit")
    [] i.effect = "error"  -> Return(c, "policy") /\ UNCHANGED <<trail, visual_faults>>

request(c) ==
  /\ turn[c] = "new"
  /\ \E i \in Asked :
       /\ input' = [input EXCEPT ![c] = i]
       /\ IF Refusal(i) # "none"
          THEN Return(c, Refusal(i)) /\ UNCHANGED <<trail, visual_faults>>
          ELSE authorize(c, i)
  /\ UNCHANGED <<desktop, focused, target, effects, refocused, moved, changes>>

\* The current target is the one that was asked for.
Matches(c, o) ==
  /\ o.ref = input[c].seen.ref
  /\ o.at.kind = input[c].seen.type
  /\ o.at.generation = input[c].seen.generation

\* What follows a look at the target: the operation, a request for the focus, or
\* an error.
capture(o) == IF require_normal_screen(o.at) THEN "act" ELSE "sensitive_target"

\* The geometry is checked before the focus is asked for and again after it.
pointer(c, o) ==
  LET wrong == validate_pointer(input[c], o.at)
      first == turn[c] = "revalidate"
  IN  IF ~require_normal_screen(o.at) THEN "sensitive_target"
      ELSE IF ~first /\ ~o.focused THEN "target_not_focused"
      ELSE IF wrong # "none" THEN wrong
      ELSE IF o.focused THEN "act" ELSE "focus"

\* Mutant: a window that was asked to take the focus is taken to have it.
focus_assumed(c, o) ==
  IF ~require_normal_screen(o.at) THEN "sensitive_target"
  ELSE IF o.focused \/ turn[c] # "revalidate" THEN "act" ELSE "focus"

keyboard(c, o) ==
  IF ~require_normal_screen(o.at) THEN "sensitive_target"
  ELSE IF o.focused THEN "act"
  ELSE IF turn[c] = "revalidate" THEN "focus" ELSE "target_not_focused"

AfterLook(c, o) ==
  CASE input[c].op = "capture"  -> capture(o)
    [] input[c].op = "pointer"  -> pointer(c, o)
    [] input[c].op = "keyboard" -> keyboard(c, o)

revalidate_audited(c) ==
  /\ turn[c] \in {"revalidate", "revalidate_again"}
  /\ \/ /\ RecordFailure(c, "backend", "audit")
        /\ UNCHANGED <<target, moved>>
     \/ \E t \in Targets :
          LET o == Observation(t)
              next == AfterLook(c, o)
          IN  IF ~Matches(c, o)
              THEN Record(c, "failed", "stale_target", "audit") /\ UNCHANGED <<target, moved>>
              ELSE /\ target' = [target EXCEPT ![c] = o]
                   /\ moved' = moved \ {c}
                   /\ IF next \in {"act", "focus"} THEN Goto(c, next)
                      ELSE Return(c, next) /\ UNCHANGED <<trail, visual_faults>>
  /\ UNCHANGED <<desktop, focused, input, effects, refocused, changes>>

\* The window manager is asked for the focus and may not give it.
focus_target(c) ==
  /\ turn[c] = "focus"
  /\ refocused' = refocused \cup {c}
  /\ \/ focused' \in {focused, target[c].ref} /\ Goto(c, "revalidate_again")
     \/ UNCHANGED focused /\ RecordFailure(c, "backend", "audit_after_side_effect")
  /\ moved' = IF focused' = focused THEN moved ELSE moved \cup (Calls \ {c})
  /\ UNCHANGED <<desktop, input, target, effects, changes>>

Effect(c) ==
  [call |-> c, real |-> Observation(target[c].ref), moved |-> c \in moved]

\* The operation itself.  A backend that reports an error may have acted.
perform(c) ==
  /\ turn[c] = "act"
  /\ \/ /\ effects' = effects \cup {Effect(c)}
        /\ Goto(c, IF input[c].op = "capture" THEN "retain" ELSE "finish")
     \/ /\ effects' \in {effects, effects \cup {Effect(c)}}
        /\ RecordFailure(c, "backend", "audit_after_side_effect")
  /\ UNCHANGED <<desktop, focused, input, target, refocused, moved, changes>>

\* The screenshot must be a bounded image file; one that is kept is prepared
\* as a private, temporary artifact of the task.
retain(c) ==
  /\ turn[c] = "retain"
  /\ \/ Goto(c, "finish")
     \/ /\ visual_faults < MaxVisualFaults
        /\ visual_faults' = visual_faults + 1
        /\ \E code \in {"invalid_action"} \cup (IF input[c].keep THEN {"artifact"} ELSE {}) :
             Return(c, code)
        /\ UNCHANGED trail
  /\ UNCHANGED <<desktop, focused, input, target, effects, refocused, moved, changes>>

\* Mutant: success is reported whether or not it could be recorded.
recorded_or_not(c) ==
  /\ turn[c] = "finish"
  /\ Record(c, "succeeded", "ok", "ok")
  /\ UNCHANGED <<desktop, focused, input, target, effects, refocused, moved, changes>>

audit_success(c) ==
  /\ turn[c] = "finish"
  /\ Record(c, "succeeded", "ok", "audit_after_side_effect")
  /\ UNCHANGED <<desktop, focused, input, target, effects, refocused, moved, changes>>

(***************************************************************************)
(* The desktop: a target changes or is replaced, the user moves the focus. *)
(***************************************************************************)
desktop_changes ==
  /\ changes < MaxChanges
  /\ changes' = changes + 1
  /\ \/ \E t \in Targets, s \in Desktops :
          /\ s # desktop[t]
          /\ desktop' = [desktop EXCEPT ![t] = s] /\ UNCHANGED focused
     \/ /\ focused' \in (Targets \cup {Nothing}) \ {focused} /\ UNCHANGED desktop
  /\ moved' = Calls
  /\ UNCHANGED <<turn, input, target, answer, trail, effects, refocused, visual_faults>>

VisualInit ==
  /\ desktop \in InitialDesktops
  /\ focused \in Targets \cup {Nothing}
  /\ turn = [c \in Calls |-> "new"]
  /\ input = [c \in Calls |-> Nothing]
  /\ target = [c \in Calls |-> Nothing]
  /\ answer = [c \in Calls |-> "none"]
  /\ trail = {} /\ effects = {} /\ refocused = {} /\ moved = {}
  /\ changes = 0 /\ visual_faults = 0

VisualNext ==
  \/ \E c \in Calls : \/ request(c) \/ revalidate_audited(c) \/ focus_target(c)
                      \/ perform(c) \/ retain(c) \/ audit_success(c)
  \/ desktop_changes

VisualSpec == VisualInit /\ [][VisualNext]_visualVars

(***************************************************************************)
(* Properties.                                                             *)
(***************************************************************************)
VisualTypeOK ==
  /\ desktop \in [Targets -> Desktops] /\ focused \in Targets \cup {Nothing}
  /\ turn \in [Calls -> {"new", "revalidate", "focus", "revalidate_again", "act", "retain",
                         "finish", "done"}]
  /\ input \in [Calls -> Asked \cup {Nothing}]
  /\ target \in [Calls -> [ref : Targets, at : Desktops, focused : BOOLEAN] \cup {Nothing}]
  /\ answer \in [Calls -> VisualErrors \cup {"none", "ok"}]
  /\ refocused \subseteq Calls /\ moved \subseteq Calls
  /\ visual_faults \in Nat

\* A screen is captured, a pointer moved and a key pressed only for a caller the
\* policy allows, on a target of its own that no structured route reaches, and,
\* unless somebody else changed the desktop after the last look, the target
\* then is the very one that was asked for: of the same generation, not
\* sensitive, with the focus if input goes to it, and under the pointer
\* (VisualController::capture, pointer, keyboard with their second look).
ScreenIsRespected ==
  /\ VisualTypeOK
  /\ \A e \in effects :
       LET i == input[e.call]
           s == e.real.at
       IN  /\ i.effect = "allow" /\ i.seen.mine /\ i.seen.freshness # "stale"
           /\ i.why = "no_structured_route" => ~i.seen.structured /\ ~i.structured
           /\ e.moved \/ /\ e.real.ref = i.seen.ref /\ s.kind = i.seen.type
                         /\ s.generation = i.seen.generation /\ s.sensitivity = "normal"
                         /\ i.op # "capture" => e.real.focused
                         /\ i.op = "pointer" => i.x < s.width /\ i.y < s.height

Acted(c) == \E e \in effects : e.call = c

\* What a call answers and records is what it did: it acts at most once and
\* leaves at most one record, ok means done and recorded, a refusal means that
\* nothing was captured or sent and, when the policy refused, that not even the
\* focus was asked for; an action without a record is admitted in the answer,
\* except for a screenshot whose file then turned out unusable
\* (audit_policy_stop, audit_failure, audit_success).
CallsAreAccountedFor ==
  \A c \in Calls :
    /\ \A d, e \in effects : d.call = c /\ e.call = c => d = e
    /\ \A d, e \in trail : d[1] = c /\ e[1] = c => d = e
    /\ turn[c] = "done" =>
         /\ answer[c] = "ok" => Acted(c) /\ <<c, "succeeded">> \in trail
         /\ Acted(c) => \/ <<c, "succeeded">> \in trail \/ <<c, "failed">> \in trail
                        \/ answer[c] = "audit_after_side_effect"
                        \/ input[c].op = "capture" /\ answer[c] \in {"invalid_action", "artifact"}
         /\ answer[c] \in {"stale_target", "target_not_focused", "sensitive_target",
                           "invalid_target", "audit"} => ~Acted(c)
         /\ answer[c] \in {"permission_denied", "approval_required", "policy",
                           "structured_control_preferred"} => ~Acted(c) /\ c \notin refocused
=============================================================================
