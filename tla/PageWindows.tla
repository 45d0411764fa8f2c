----------------------------- MODULE PageWindows -----------------------------
(***************************************************************************)
(* Two parts of the page of examples/explorer.ts.                          *)
(*                                                                         *)
(* The debugger: the report of the last run or action that was answered,   *)
(* the selected frame of its stack and the selected variable of that       *)
(* frame.  Runs and actions may overlap; whatever answer comes last is     *)
(* shown.                                                                  *)
(*                                                                         *)
(* The floating windows: which are open, which is active and which is      *)
(* above which, and the layout that is kept in the browser's storage for   *)
(* the next time the page is opened.  Places and sizes are left out.       *)
(***************************************************************************)
EXTENDS ClassBrowser, Integers, FiniteSets

CONSTANTS
  MaxRuns,      \* debug runs that are asked for, at most
  Stacks,       \* stacks in a report: [lines |-> how many, frames |-> index to number of variables]
  NoFrame       \* no frame, or no variable, is selected

ASSUME DebuggerAssumption ==
  /\ MaxRuns \in Nat
  /\ \A s \in Stacks : s.lines \in Nat /\ \A i \in DOMAIN s.frames : i \in Nat /\ s.frames[i] \in Nat
  /\ NoFrame \notin Nat

-----------------------------------------------------------------------------
(* The debugger                                                            *)

VARIABLES
  lastDebug,          \* the report that is shown
  debugFrames,        \* the variables of each of its frames
  selectedFrame,      \* state.selectedDebugFrame
  selectedVariable,   \* state.selectedDebugVariable
  asks,               \* the runs and actions that are not answered
  runs                \* the runs asked for so far

debuggerVars == <<lastDebug, debugFrames, selectedFrame, selectedVariable, asks, runs>>

NoFrames == [i \in {} |-> 0]
NoReport == [ok |-> TRUE, session |-> 0]
First(frames) == IF frames = NoFrames THEN NoFrame ELSE CHOOSE i \in DOMAIN frames : \A j \in DOMAIN frames : i <= j

DebuggerBegins ==
  /\ lastDebug = NoReport /\ debugFrames = NoFrames
  /\ selectedFrame = NoFrame /\ selectedVariable = NoFrame
  /\ asks = {} /\ runs = 0

(* One row per line of the printed stack, with the details that were sent  *)
(* for that index; or the details alone when there are no lines.           *)
ParseContextStack(stack) ==
  IF stack.lines = 0 THEN stack.frames
  ELSE [i \in 0..(stack.lines - 1) |-> IF i \in DOMAIN stack.frames THEN stack.frames[i] ELSE 0]

-----------------------------------------------------------------------------
(* What is selected                                                        *)

VariablesOf(frames, f) == IF f \in DOMAIN frames THEN frames[f] ELSE 0

(* The details of a frame: its first variable is selected unless another   *)
(* of them is.                                                             *)
FrameDetails(frames, f, v) ==
  IF v \in 0..(VariablesOf(frames, f) - 1) THEN v
  ELSE IF VariablesOf(frames, f) > 0 THEN 0 ELSE NoFrame

SelectDebugFrame(f) ==
  /\ f \in DOMAIN debugFrames /\ selectedFrame' = f
  /\ selectedVariable' = FrameDetails(debugFrames, f, NoFrame)
  /\ UNCHANGED <<lastDebug, debugFrames, asks, runs>>

(* An arrow key in the row of a frame selects the one above or below.      *)
NextRow(indexes, i, down) ==
  LET beyond == {j \in indexes : IF down THEN j > i ELSE j < i}
  IN  IF beyond = {} THEN i
      ELSE CHOOSE j \in beyond : \A k \in beyond : IF down THEN j <= k ELSE j >= k

PressArrow ==
  \E down \in BOOLEAN :
    \/ selectedFrame # NoFrame /\ SelectDebugFrame(NextRow(DOMAIN debugFrames, selectedFrame, down))
    \/ /\ selectedVariable # NoFrame
       /\ selectedVariable' = NextRow(0..(VariablesOf(debugFrames, selectedFrame) - 1), selectedVariable, down)
       /\ UNCHANGED <<lastDebug, debugFrames, selectedFrame, asks, runs>>

SelectDebugVariable(v) ==
  /\ v < VariablesOf(debugFrames, selectedFrame) /\ selectedVariable' = v
  /\ UNCHANGED <<lastDebug, debugFrames, selectedFrame, asks, runs>>

(* A report is shown from the frame of the executed code, or the first.    *)
(* (An answer that names the frame to select selects it in the same turn.) *)
RenderDebugReport(report, stack) ==
  /\ lastDebug' = report
  /\ debugFrames' = IF report.ok THEN NoFrames ELSE ParseContextStack(stack)
  /\ selectedFrame' \in IF debugFrames' = NoFrames THEN {NoFrame} ELSE DOMAIN debugFrames'
  /\ selectedVariable' = FrameDetails(debugFrames', selectedFrame', NoFrame)

-----------------------------------------------------------------------------
(* Runs and actions                                                        *)

(* A run, asked for by the user or when an evaluation fails. *)
RunDebug ==
  /\ runs < MaxRuns /\ runs' = runs + 1
  /\ asks' = asks \cup {[session |-> runs + 1, frame |-> NoFrame]}
  /\ UNCHANGED <<lastDebug, debugFrames, selectedFrame, selectedVariable>>

Live == ~lastDebug.ok /\ lastDebug.session # 0

(* Without a live session an action is refused; a restart is a run then.   *)
RunDebugAction ==
  /\ Live
  /\ asks' = asks \cup {[session |-> lastDebug.session, frame |-> IF selectedFrame = NoFrame THEN 0 ELSE selectedFrame]}
  /\ UNCHANGED <<lastDebug, debugFrames, selectedFrame, selectedVariable, runs>>

(* The process halts, with its own stack, or has ended; what halts without *)
(* a process to go on with is not live.                                    *)
Answered(a) ==
  /\ a \in asks /\ asks' = asks \ {a} /\ UNCHANGED runs
  /\ \/ RenderDebugReport([ok |-> TRUE, session |-> 0], [lines |-> 0, frames |-> NoFrames])
     \/ \E stack \in Stacks, s \in {0, a.session} :
          RenderDebugReport([ok |-> FALSE, session |-> s], stack)

(* The error is shown next to the report that was there. *)
AskFails(a) ==
  /\ a \in asks /\ asks' = asks \ {a}
  /\ UNCHANGED <<lastDebug, debugFrames, selectedFrame, selectedVariable, runs>>

DebuggerNext ==
  \/ \E f \in DOMAIN debugFrames : SelectDebugFrame(f)
  \/ \E v \in 0..(VariablesOf(debugFrames, selectedFrame) - 1) : SelectDebugVariable(v)
  \/ PressArrow \/ RunDebug \/ RunDebugAction
  \/ \E a \in asks : Answered(a) \/ AskFails(a)

DebuggerSpec == DebuggerBegins /\ [][DebuggerNext]_debuggerVars

-----------------------------------------------------------------------------

(* Whatever order runs and actions are answered in, what is selected, and  *)
(* so what is inspected and what the next action names, is a frame of the  *)
(* report on show and a variable of that frame; nothing is selected only   *)
(* when there is nothing to select.                                        *)
SelectionIsOnShow ==
  /\ selectedFrame = NoFrame <=> debugFrames = NoFrames
  /\ selectedFrame # NoFrame => selectedFrame \in DOMAIN debugFrames
  /\ selectedVariable = NoFrame <=> VariablesOf(debugFrames, selectedFrame) = 0
  /\ selectedVariable # NoFrame => selectedVariable < VariablesOf(debugFrames, selectedFrame)

-----------------------------------------------------------------------------
(* The windows                                                             *)

CONSTANTS
  Windows,          \* the windows of the page
  Hidden,           \* those that a restored layout does not open (pop-ups)
  DefaultVisible,   \* those of the default layout
  Foremost,         \* the one that is in front of the default layout (inspect)
  MaxZ              \* the heights that are explored

ASSUME WindowsAssumption ==
  /\ Hidden \subseteq Windows /\ DefaultVisible \subseteq Windows \ Hidden
  /\ Foremost \in DefaultVisible /\ MaxZ \in Nat

VARIABLES
  win,          \* is a window open, is it active, and its z-index (0: none)
  nextWindowZ,
  layout,       \* localStorage: what was saved, if anything
  unsaved       \* the storage has refused something (history)

windowVars == <<win, nextWindowZ, layout, unsaved>>

Active(ws) == {w \in Windows : ws[w].active}

(* saveWindowLayout(); a storage that throws keeps what it has. *)
Save ==
  \/ layout' = [windows |-> win', next |-> nextWindowZ'] /\ unsaved' = FALSE
  \/ layout' = layout /\ unsaved' = TRUE

Focused(ws, w, z) ==
  [v \in Windows |-> IF v = w THEN [open |-> TRUE, active |-> TRUE, z |-> z]
                     ELSE [ws[v] EXCEPT !.active = FALSE]]

Default == Focused([w \in Windows |-> [open |-> w \in DefaultVisible, active |-> FALSE, z |-> 0]], Foremost, 21)

NoLayout == [windows |-> Default, next |-> 0]   \* nothing is stored

WindowsBegin == win = Default /\ nextWindowZ = 21 /\ layout = [windows |-> Default, next |-> 21] /\ unsaved = FALSE

FocusWindow(w) ==
  /\ nextWindowZ < MaxZ /\ nextWindowZ' = nextWindowZ + 1
  /\ win' = Focused(win, w, nextWindowZ') /\ Save

CloseWindow(w) ==
  /\ win[w].open /\ win' = [win EXCEPT ![w].open = FALSE, ![w].active = FALSE]
  /\ UNCHANGED nextWindowZ /\ Save

(* The layout is removed before it is saved again. *)
ResetWindows ==
  /\ win' = Default /\ nextWindowZ' = 21
  /\ \/ Save
     \/ layout' = NoLayout /\ unsaved' = TRUE

RestoredZ ==
  LET zs == {20, layout.next} \cup {layout.windows[w].z : w \in Windows}
  IN  CHOOSE z \in zs : \A y \in zs : y <= z

(* A window that may not be open is not active either; when none is, one   *)
(* that is open becomes so, wherever it stands.                            *)
Restored ==
  LET shown(w) == layout.windows[w].open /\ w \notin Hidden
      ws == [w \in Windows |-> [open |-> shown(w), active |-> shown(w) /\ layout.windows[w].active,
                                z |-> layout.windows[w].z]]
      open == {w \in Windows : ws[w].open}
  IN  IF Active(ws) # {} \/ open = {} THEN {ws} ELSE {[ws EXCEPT ![w].active = TRUE] : w \in open}

(* The page is opened again. *)
Reopen ==
  IF layout.next = 0
    THEN ResetWindows
    ELSE win' \in Restored /\ nextWindowZ' = RestoredZ /\ UNCHANGED <<layout, unsaved>>

WindowsNext ==
  \/ \E w \in Windows : FocusWindow(w) \/ CloseWindow(w)
  \/ ResetWindows \/ Reopen

WindowsSpec == WindowsBegin /\ [][WindowsNext]_windowVars

(* No two windows are active, and none that is closed; no two stand at the *)
(* same height, and the next to be focused stands above all others, in a   *)
(* page that was just opened too.  Unless the storage refused it, what is  *)
(* stored is what is on show, pop-ups apart.                               *)
LayoutIsKept ==
  /\ Cardinality(Active(win)) <= 1 /\ \A w \in Active(win) : win[w].open
  /\ \A v, w \in Windows : win[v].z <= nextWindowZ /\ (v # w /\ win[v].z = win[w].z => win[v].z = 0)
  /\ ~unsaved => \A w \in Windows \ Hidden :
       layout.windows[w].open = win[w].open /\ layout.windows[w].z = win[w].z

(* What the windows of the page show belongs together: a source and the    *)
(* class it is from, a frame and its stack, the layout and what is stored. *)
WindowsBelongTogether == EditorMatchesSelection /\ SelectionIsOnShow /\ LayoutIsKept

=============================================================================
