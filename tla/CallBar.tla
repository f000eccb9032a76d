-------------------------------- MODULE CallBar --------------------------------
(***************************************************************************)
(* The Desktop's call bar, a small window that floats while a call is on:  *)
(* the main process shows and hides it (main/call-bar.ts, main/index.ts)   *)
(* as the page tells it of the call, and sends the bar's own page what to  *)
(* draw.  The bar's page may come up after the call has begun, a hidden    *)
(* window fades out first, and the user may hide the bar from its menu.    *)
(*                                                                         *)
(* The messages of the page are handled in their order, and a step of the  *)
(* page is their handling; the end of a call, which the page tells twice,  *)
(* is one.  Left out: the bar's place, the levels it draws and the menu's  *)
(* requests to mute or end the call, which the page obeys like its own     *)
(* buttons.                                                                *)
(***************************************************************************)
EXTENDS Naturals, Sequences

CONSTANT MaxMessages     \* bound: messages on their way to the bar's page

VARIABLES
    inCall, micMuted,    \* the page: isConnected, isMuted
    callActive, sessionHiddenByUser,
    enabled,             \* the setting call_bar_enabled
    visible,             \* the window is visible
    hideTimer,           \* hideTimer
    isReady, queuedVisibility, queuedMuted,
    levelTimer,          \* the levels are broadcast
    toBar,               \* messages on their way to the bar's page
    shown, shownMuted,   \* what the bar's page shows
    wanted               \* history: the setting when the call was announced

barVars == <<inCall, micMuted, callActive, sessionHiddenByUser, enabled, visible, hideTimer,
             isReady, queuedVisibility, queuedMuted, levelTimer, toBar, shown, shownMuted, wanted>>

Queued == {"nothing", "yes", "no"}
Messages == [what : {"visibility", "muted"}, value : BOOLEAN]
As(flag) == IF flag THEN "yes" ELSE "no"

BarTypeOK ==
    /\ {inCall, micMuted, callActive, sessionHiddenByUser, enabled, visible, hideTimer, isReady,
        levelTimer, shown, shownMuted, wanted} \subseteq BOOLEAN
    /\ {queuedVisibility, queuedMuted} \subseteq Queued
    /\ toBar \in Seq(Messages)

Init ==
    /\ inCall = FALSE /\ micMuted = FALSE
    /\ callActive = FALSE /\ sessionHiddenByUser = FALSE /\ enabled = TRUE
    /\ visible = FALSE /\ hideTimer = FALSE
    /\ isReady = FALSE /\ queuedVisibility = "nothing" /\ queuedMuted = "nothing"
    /\ levelTimer = FALSE /\ toBar = <<>>
    /\ shown = FALSE /\ shownMuted = FALSE /\ wanted = FALSE

-----------------------------------------------------------------------------
\* broadcastVisibility, broadcastMuted: queued, the last of each, until the bar's
\* page is ready.
BroadcastVisibility(flag) ==
    IF isReady
       THEN toBar' = Append(toBar, [what |-> "visibility", value |-> flag])
            /\ UNCHANGED queuedVisibility
       ELSE queuedVisibility' = As(flag) /\ UNCHANGED toBar

BroadcastMuted(flag) ==
    IF isReady
       THEN toBar' = Append(toBar, [what |-> "muted", value |-> flag]) /\ UNCHANGED queuedMuted
       ELSE queuedMuted' = As(flag) /\ UNCHANGED toBar

\* Mutant: a bar that fades out is shown, and its timer still hides it.
ShowWhileFading ==
    /\ visible' = TRUE /\ levelTimer' = TRUE
    /\ BroadcastVisibility(TRUE)
    /\ UNCHANGED hideTimer

\* showCallBar
Show ==
    /\ hideTimer' = FALSE /\ visible' = TRUE /\ levelTimer' = TRUE
    /\ BroadcastVisibility(TRUE)

\* hideCallBar: the window is hidden when its page has faded out.
Hide ==
    /\ hideTimer' = TRUE /\ levelTimer' = FALSE
    /\ BroadcastVisibility(FALSE)
    /\ UNCHANGED visible

\* setCallActive, when the page's session is ready or lost.
SetCallActive(active) ==
    /\ Len(toBar) < MaxMessages /\ inCall # active
    /\ inCall' = active /\ callActive' = active
    /\ IF active
          THEN /\ sessionHiddenByUser' = FALSE /\ wanted' = enabled
               /\ IF enabled THEN Show
                  ELSE UNCHANGED <<visible, hideTimer, levelTimer, queuedVisibility, toBar>>
          ELSE Hide /\ UNCHANGED <<sessionHiddenByUser, wanted>>
    /\ UNCHANGED <<micMuted, enabled, isReady, queuedMuted, shown, shownMuted>>

\* call-bar:muted, which the page sends when the user turns the microphone.
SetMuted ==
    /\ Len(toBar) < MaxMessages
    /\ micMuted' = ~micMuted
    /\ BroadcastMuted(~micMuted)
    /\ UNCHANGED <<inCall, callActive, sessionHiddenByUser, enabled, visible, hideTimer, isReady,
                   queuedVisibility, levelTimer, shown, shownMuted, wanted>>

\* "Hide bar" of the bar's menu.
HideRequested ==
    /\ visible /\ Len(toBar) < MaxMessages
    /\ sessionHiddenByUser' = TRUE
    /\ Hide
    /\ UNCHANGED <<inCall, micMuted, callActive, enabled, isReady, queuedMuted, shown, shownMuted,
                   wanted>>

\* HIDE_FADE_MS passed.
HideTimer ==
    /\ hideTimer
    /\ hideTimer' = FALSE /\ visible' = FALSE
    /\ UNCHANGED <<inCall, micMuted, callActive, sessionHiddenByUser, enabled, isReady,
                   queuedVisibility, queuedMuted, levelTimer, toBar, shown, shownMuted, wanted>>

\* The setting is read when a call begins.
ToggleSetting ==
    /\ enabled' = ~enabled
    /\ UNCHANGED <<inCall, micMuted, callActive, sessionHiddenByUser, visible, hideTimer, isReady,
                   queuedVisibility, queuedMuted, levelTimer, toBar, shown, shownMuted, wanted>>

Flush(what, queued) ==
    IF queued = "nothing" THEN <<>> ELSE <<[what |-> what, value |-> queued = "yes"]>>

\* Mutant: what was queued of the microphone is forgotten.
ReadyForgetting ==
    /\ ~isReady
    /\ isReady' = TRUE
    /\ toBar' = toBar \o Flush("visibility", queuedVisibility)
    /\ queuedVisibility' = "nothing" /\ queuedMuted' = "nothing"
    /\ UNCHANGED <<inCall, micMuted, callActive, sessionHiddenByUser, enabled, visible, hideTimer,
                   levelTimer, shown, shownMuted, wanted>>

\* markCallBarReady: the bar's page listens from now on.
Ready ==
    /\ ~isReady
    /\ isReady' = TRUE
    /\ toBar' = toBar \o Flush("visibility", queuedVisibility) \o Flush("muted", queuedMuted)
    /\ queuedVisibility' = "nothing" /\ queuedMuted' = "nothing"
    /\ UNCHANGED <<inCall, micMuted, callActive, sessionHiddenByUser, enabled, visible, hideTimer,
                   levelTimer, shown, shownMuted, wanted>>

\* The bar's page hears the next message.
Hear ==
    /\ toBar # <<>>
    /\ toBar' = Tail(toBar)
    /\ IF Head(toBar).what = "visibility"
          THEN shown' = Head(toBar).value /\ UNCHANGED shownMuted
          ELSE shownMuted' = Head(toBar).value /\ UNCHANGED shown
    /\ UNCHANGED <<inCall, micMuted, callActive, sessionHiddenByUser, enabled, visible, hideTimer,
                   isReady, queuedVisibility, queuedMuted, levelTimer, wanted>>

Next ==
    \/ SetMuted \/ HideRequested \/ HideTimer \/ ToggleSetting \/ Ready \/ Hear
    \/ \E active \in BOOLEAN : SetCallActive(active)

Spec == Init /\ [][Next]_barVars

-----------------------------------------------------------------------------
\* The bar is there while there is a call, unless the user does not want it, and gone
\* after it, when it has faded: however calls follow one another, and whenever its page
\* comes up, window, page and levels agree; and the bar shows a muted microphone as
\* muted, and no other.
BarAgrees ==
    LET due == callActive /\ wanted /\ ~sessionHiddenByUser
        settled == isReady /\ toBar = <<>>
    IN /\ (visible /\ ~hideTimer) = due /\ levelTimer = due
       /\ settled => shown = due /\ shownMuted = micMuted
=============================================================================
