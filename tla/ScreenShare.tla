----------------------------- MODULE ScreenShare -----------------------------
(***************************************************************************)
(* Sharing the screen during a Desktop call: the captures the chat page    *)
(* starts and stops, and the transparent overlay the user draws on, whose  *)
(* state is spread over the page, the main process and the overlay's own   *)
(* renderer.  The main process takes what the page asks when it is asked:  *)
(* the delay of its effects is in the queues to the page, to the overlay   *)
(* and from the overlay, each of which keeps its order.  The two requests  *)
(* that end a share, to clear the overlay and to hide it, are two tasks.   *)
(*                                                                         *)
(* A stroke is known by the share it was begun in.  Frames, the overlay's  *)
(* place on the displays and the window's loss are left out.               *)
(***************************************************************************)
EXTENDS Naturals, Sequences, FiniteSets

CONSTANTS
    MaxShares,      \* bound: captures started
    MaxGestures     \* bound: what the user does

Shares == 1..MaxShares
None == 0

VARIABLES
    inCall,             \* isCallActive
    capture,            \* each ScreenCapture
    source,             \* what it captures
    screenCapture,      \* screenCaptureRef
    isScreenSharing, drawMode,
    pageStrokes,        \* overlayStrokesRef, as the shares they were drawn in
    context,            \* the kind of sourceContextRef
    polling,            \* the window whose bounds are polled
    asking,             \* the window whose bounds were asked for
    isReady, pendingMode, pendingDisplay, visible, currentMode,     \* the main process
    hiding,             \* the main process is to hide the overlay
    overlayMode, strokes, activeStroke,                             \* the overlay
    fromOverlay, toPage, toOverlay,
    gestures,           \* what the user has done so far
    overlapped,         \* history: shares were started side by side, or one failed late
    lost,               \* history: the overlay was asked to show before it was ready
    lateBounds,         \* history: bounds came for a share that is over
    stuck               \* history: a stroke was begun while the overlay was about to be hidden

captureVars == <<capture, source, screenCapture, isScreenSharing, overlapped>>
boundsVars == <<context, polling, asking, lateBounds>>
mainVars == <<isReady, pendingMode, pendingDisplay, visible, currentMode, hiding, lost>>
overlayVars == <<overlayMode, strokes, activeStroke, stuck>>
queues == <<fromOverlay, toPage, toOverlay>>
shareVars == <<inCall, captureVars, drawMode, pageStrokes, boundsVars, mainVars, overlayVars,
               queues, gestures>>

Init ==
    /\ inCall = TRUE
    /\ capture = [i \in Shares |-> "none"] /\ source = [i \in Shares |-> "display"]
    /\ screenCapture = None /\ isScreenSharing = FALSE /\ drawMode = FALSE
    /\ pageStrokes = {} /\ context = "none" /\ polling = None /\ asking = None
    /\ isReady = FALSE /\ pendingMode = "none" /\ pendingDisplay = FALSE /\ visible = FALSE
    /\ currentMode = "idle" /\ hiding = FALSE
    /\ overlayMode = "loading" /\ strokes = {} /\ activeStroke = None
    /\ fromOverlay = <<>> /\ toPage = <<>> /\ toOverlay = <<>>
    /\ gestures = 0
    /\ overlapped = FALSE /\ lost = FALSE /\ lateBounds = FALSE /\ stuck = FALSE

Streaming(i) == capture[i] \in {"live", "held"}
Gesture == gestures < MaxGestures /\ gestures' = gestures + 1

-----------------------------------------------------------------------------
(* The main process. *)

Send(p, o) == toPage' = toPage \o p /\ toOverlay' = toOverlay \o o
Shown == <<<<"bounds", "">>>>
Moded(m) == <<<<"mode", m>>>>
Cleared == IF isReady THEN <<<<"clear", "">>>> ELSE <<>>

\* showDrawOverlay: before the overlay is ready only a display's id is remembered.
Show(kind) ==
    /\ IF isReady
       THEN visible' = TRUE /\ Send(Shown, Shown) /\ UNCHANGED <<pendingDisplay, lost>>
       ELSE /\ pendingDisplay' = (kind = "display") /\ lost' = (lost \/ kind = "window")
            /\ UNCHANGED <<visible, toPage, toOverlay>>
    /\ UNCHANGED <<isReady, pendingMode, currentMode, hiding>>

\* Mutant: the overlay is hidden with what was drawn on it.
HideUncleared ==
    /\ hiding' = TRUE
    /\ UNCHANGED <<isReady, pendingMode, pendingDisplay, visible, currentMode, lost, toPage, toOverlay>>

\* clearDrawOverlay, behind which the page's next request is to hide the overlay.
ClearAndHide ==
    /\ hiding' = TRUE
    /\ Send(<<>>, Cleared)
    /\ UNCHANGED <<isReady, pendingMode, pendingDisplay, visible, currentMode, lost>>

\* hideDrawOverlay
Hide ==
    /\ hiding /\ hiding' = FALSE
    /\ pendingDisplay' = FALSE /\ pendingMode' = "none"
    /\ currentMode' = "idle" /\ visible' = FALSE
    /\ Send(Moded("idle"), Moded("idle"))
    /\ UNCHANGED <<inCall, captureVars, drawMode, pageStrokes, boundsVars, isReady, lost, overlayVars,
                   fromOverlay, gestures>>

\* Mutant: the page is not told.
SetModeQuietly(m) ==
    /\ IF isReady
       THEN currentMode' = m /\ Send(<<>>, Moded(m)) /\ UNCHANGED pendingMode
       ELSE pendingMode' = m /\ UNCHANGED <<currentMode, toPage, toOverlay>>
    /\ UNCHANGED <<isReady, pendingDisplay, visible, hiding, lost>>

\* setDrawOverlayMode
SetMode(m) ==
    /\ IF isReady
       THEN currentMode' = m /\ Send(Moded(m), Moded(m)) /\ UNCHANGED pendingMode
       ELSE pendingMode' = m /\ UNCHANGED <<currentMode, toPage, toOverlay>>
    /\ UNCHANGED <<isReady, pendingDisplay, visible, hiding, lost>>

\* clearDrawOverlay
Clear ==
    /\ Send(<<>>, Cleared)
    /\ UNCHANGED mainVars

\* draw-overlay:ready, with what was remembered.
Ready ==
    /\ isReady' = TRUE /\ pendingDisplay' = FALSE /\ pendingMode' = "none"
    /\ visible' = (visible \/ pendingDisplay)
    /\ currentMode' = IF pendingMode = "none" THEN currentMode ELSE pendingMode
    /\ LET shown == IF pendingDisplay THEN Shown ELSE <<>>
           moded == IF pendingMode = "none" THEN <<>> ELSE Moded(pendingMode)
       IN Send(shown \o moded, shown \o moded)
    /\ UNCHANGED <<hiding, lost>>

-----------------------------------------------------------------------------
(* The page and its captures. *)

\* startScreenShare, of the picker, which opens as long as nothing is shared.
Pick(i) ==
    /\ inCall /\ ~isScreenSharing /\ Gesture
    /\ capture[i] = "none" /\ \A j \in Shares : capture[j] = "none" => i <= j
    /\ capture' = [capture EXCEPT ![i] = "asking"] /\ screenCapture' = i
    /\ \E kind \in {"display", "window"} : source' = [source EXCEPT ![i] = kind]
    /\ overlapped' = (overlapped \/ \E j \in Shares : capture[j] = "asking")
    /\ UNCHANGED <<inCall, isScreenSharing, drawMode, pageStrokes, boundsVars, mainVars,
                   overlayVars, queues>>

\* getUserMedia resolves, whatever became of the share meanwhile, and the video plays:
\* frames are sent from now on, and the overlay is shown, which the page asks for after
\* it asked to hide it for an earlier share.
Starts(i) ==
    /\ capture[i] = "asking" /\ ~hiding
    /\ capture' = [capture EXCEPT ![i] = "live"]
    /\ isScreenSharing' = TRUE
    /\ Show(source[i])
    /\ polling' = IF source[i] = "window" THEN i ELSE polling
    /\ UNCHANGED <<inCall, source, screenCapture, overlapped, drawMode, pageStrokes, context,
                   asking, lateBounds, overlayVars, fromOverlay, gestures>>

\* capture.start fails: a stream that was granted is not stopped when its video does not
\* play, and the page forgets the capture it has by now.
StartFails(i, granted) ==
    /\ capture[i] = "asking"
    /\ capture' = [capture EXCEPT ![i] = IF granted THEN "held" ELSE "stopped"]
    /\ overlapped' = (overlapped \/ granted \/ screenCapture # i)
    /\ screenCapture' = None
    /\ UNCHANGED <<inCall, source, isScreenSharing, drawMode, pageStrokes, boundsVars, mainVars,
                   overlayVars, queues, gestures>>

\* stopScreenShare
Stop ==
    /\ capture' = IF screenCapture # None /\ Streaming(screenCapture)
                  THEN [capture EXCEPT ![screenCapture] = "stopped"] ELSE capture
    /\ screenCapture' = None
    /\ isScreenSharing' = FALSE /\ drawMode' = FALSE /\ pageStrokes' = {}
    /\ context' = "none" /\ polling' = None
    /\ ClearAndHide
    /\ UNCHANGED <<source, overlapped, asking, lateBounds, overlayVars, fromOverlay>>

UserStops == isScreenSharing /\ Gesture /\ Stop /\ UNCHANGED inCall

\* The effect that stops the share once the call is over.
CallEndStops == isScreenSharing /\ ~inCall /\ Stop /\ UNCHANGED <<inCall, gestures>>

CallEnds ==
    /\ Gesture /\ inCall' = ~inCall
    /\ UNCHANGED <<captureVars, drawMode, pageStrokes, boundsVars, mainVars, overlayVars, queues>>

\* toggleDrawMode
ToggleDraw ==
    /\ isScreenSharing /\ Gesture
    /\ SetMode(IF drawMode THEN "idle" ELSE "draw")
    /\ UNCHANGED <<inCall, captureVars, drawMode, pageStrokes, boundsVars, overlayVars,
                   fromOverlay>>

\* clearStrokes
ClearStrokes ==
    /\ isScreenSharing /\ pageStrokes # {} /\ Gesture
    /\ pageStrokes' = {}
    /\ Clear
    /\ UNCHANGED <<inCall, captureVars, drawMode, boundsVars, overlayVars, fromOverlay>>

\* The poll's refresh, once the overlay's display is known.
AskBounds ==
    /\ polling # None /\ asking = None /\ context # "none"
    /\ asking' = polling
    /\ UNCHANGED <<inCall, captureVars, drawMode, pageStrokes, context, polling, lateBounds,
                   mainVars, overlayVars, queues, gestures>>

BoundsArrive ==
    /\ asking # None
    /\ asking' = None /\ context' = "window"
    /\ lateBounds' = (lateBounds \/ polling # asking)
    /\ UNCHANGED <<inCall, captureVars, drawMode, pageStrokes, polling, mainVars, overlayVars,
                   queues, gestures>>

\* What the main process tells the page.
PageHears ==
    /\ toPage # <<>> /\ toPage' = Tail(toPage)
    /\ LET kind == toPage[1][1] IN
       /\ drawMode' = IF kind = "mode" THEN toPage[1][2] = "draw" ELSE drawMode
       /\ pageStrokes' = IF kind = "strokes" THEN toPage[1][2] ELSE pageStrokes
       /\ context' = IF kind \in {"strokes", "bounds"} /\ context # "window" THEN "display"
                     ELSE context
    /\ UNCHANGED <<inCall, captureVars, polling, asking, lateBounds, mainVars, overlayVars,
                   fromOverlay, toOverlay, gestures>>

-----------------------------------------------------------------------------
(* The overlay's renderer, and the main process as it hears it. *)

MainHearsOverlay ==
    /\ fromOverlay # <<>> /\ fromOverlay' = Tail(fromOverlay)
    /\ LET kind == fromOverlay[1][1] IN
       \/ kind = "ready" /\ Ready
       \/ kind = "idle" /\ SetMode("idle")
       \/ kind = "clear" /\ Clear
       \/ kind = "strokes" /\ Send(<<fromOverlay[1]>>, <<>>) /\ UNCHANGED mainVars
    /\ UNCHANGED <<inCall, captureVars, drawMode, pageStrokes, boundsVars, overlayVars, gestures>>

\* The overlay is created with the app and reports that it is loaded.
OverlayLoads ==
    /\ overlayMode = "loading"
    /\ overlayMode' = "idle" /\ fromOverlay' = Append(fromOverlay, <<"ready", {}>>)
    /\ UNCHANGED <<inCall, captureVars, drawMode, pageStrokes, boundsVars, mainVars, strokes,
                   activeStroke, stuck, toPage, toOverlay, gestures>>

\* Before it is loaded nobody hears what is sent to it.
OverlayHears ==
    /\ toOverlay # <<>> /\ toOverlay' = Tail(toOverlay)
    /\ LET kind == toOverlay[1][1] IN
       /\ overlayMode' = IF kind = "mode" /\ overlayMode # "loading" THEN toOverlay[1][2] ELSE overlayMode
       /\ IF kind = "clear"
          THEN /\ strokes' = {} /\ activeStroke' = None
               /\ fromOverlay' = Append(fromOverlay, <<"strokes", {}>>)
          ELSE UNCHANGED <<strokes, activeStroke, fromOverlay>>
    /\ UNCHANGED <<inCall, captureVars, drawMode, pageStrokes, boundsVars, mainVars, stuck,
                   toPage, gestures>>

\* The share in which a stroke is begun.
Newest == CHOOSE i \in Shares : capture[i] # "none"
              /\ \A j \in Shares : capture[j] # "none" => j <= i

PointerDown ==
    /\ overlayMode = "draw" /\ visible /\ activeStroke = None /\ Gesture
    /\ activeStroke' = Newest
    /\ stuck' = (stuck \/ ~isScreenSharing)
    /\ UNCHANGED <<inCall, captureVars, drawMode, pageStrokes, boundsVars, mainVars, overlayMode,
                   strokes, queues>>

\* A stroke of a single point is dropped.
PointerUp ==
    /\ overlayMode = "draw" /\ activeStroke # None
    /\ activeStroke' = None
    /\ \/ UNCHANGED <<strokes, fromOverlay>>
       \/ /\ strokes' = strokes \cup {activeStroke}
          /\ fromOverlay' = Append(fromOverlay, <<"strokes", strokes'>>)
    /\ UNCHANGED <<inCall, captureVars, drawMode, pageStrokes, boundsVars, mainVars, overlayMode,
                   stuck, toPage, toOverlay, gestures>>

\* The overlay's Clear button.
ClearButton ==
    /\ overlayMode = "draw" /\ Gesture
    /\ strokes' = {} /\ activeStroke' = None
    /\ fromOverlay' = fromOverlay \o <<<<"clear", {}>>, <<"strokes", {}>>>>
    /\ UNCHANGED <<inCall, captureVars, drawMode, pageStrokes, boundsVars, mainVars, overlayMode,
                   stuck, toPage, toOverlay>>

\* Done, Esc or the right button.
Done ==
    /\ overlayMode = "draw" /\ Gesture
    /\ fromOverlay' = Append(fromOverlay, <<"idle", {}>>)
    /\ UNCHANGED <<inCall, captureVars, drawMode, pageStrokes, boundsVars, mainVars, overlayVars,
                   toPage, toOverlay>>

-----------------------------------------------------------------------------
Next ==
    \/ PageHears \/ MainHearsOverlay \/ OverlayHears \/ Hide
    \/ UserStops \/ CallEndStops \/ CallEnds \/ ToggleDraw \/ ClearStrokes
    \/ AskBounds \/ BoundsArrive
    \/ OverlayLoads \/ PointerDown \/ PointerUp \/ ClearButton \/ Done
    \/ \E i \in Shares : Pick(i) \/ Starts(i) \/ \E granted \in BOOLEAN : StartFails(i, granted)

Spec == Init /\ [][Next]_shareVars

-----------------------------------------------------------------------------
Quiet == fromOverlay = <<>> /\ toPage = <<>> /\ toOverlay = <<>> /\ ~hiding

ShareTypeOK ==
    /\ capture \in [Shares -> {"none", "asking", "live", "held", "stopped"}]
    /\ screenCapture \in Shares \cup {None} /\ polling \in Shares \cup {None}
    /\ context \in {"none", "display", "window"} /\ currentMode \in {"idle", "draw"}
    /\ pendingMode \in {"none", "idle", "draw"} /\ overlayMode \in {"loading", "idle", "draw"}
    /\ strokes \subseteq Shares /\ pageStrokes \subseteq Shares

\* A screen that is being captured can be stopped: the capture is the page's, and once it
\* sends frames the page shows it, unless two were started side by side or one failed
\* with its stream open.
CaptureCanBeStopped ==
    ~overlapped =>
        \A i \in Shares : Streaming(i) =>
            screenCapture = i /\ (capture[i] = "live" <=> isScreenSharing)

\* Once every message has arrived the page, the main process and the overlay agree on
\* the mode and the strokes, and nothing of a share that is over is left
\* but a stroke that was begun before the overlay was hidden.
OverlayAgrees ==
    Quiet =>
        /\ drawMode = (currentMode = "draw") /\ overlayMode \in {currentMode, "loading"}
        /\ pageStrokes = strokes
        /\ ~isScreenSharing => ~visible /\ currentMode = "idle" /\ (strokes = {} \/ stuck)
        /\ isScreenSharing /\ isReady /\ ~lost => visible

\* What is drawn belongs to the share it is composited into, and is scaled for it,
\* unless a stroke was begun or bounds came between two shares.
StrokesOfShare ==
    Quiet /\ isScreenSharing /\ ~overlapped =>
        /\ ~stuck => \A i \in pageStrokes : capture[i] = "live"
        /\ ~lateBounds /\ source[screenCapture] = "display" => context # "window"
=============================================================================
