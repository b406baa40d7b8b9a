--------------------------- MODULE DialogAnswer ---------------------------
(***************************************************************************)
(* Answering a dialog of an agent from the phone                            *)
(* (prototypes/remote-control/server.py): the page renders the dialog the   *)
(* transcript or the pane shows; a tap is checked against what is there     *)
(* now, and relayed as keys, each sent a moment after the last.             *)
(***************************************************************************)
EXTENDS Null, Naturals, FiniteSets

CONSTANTS
    MaxDialogs, \* bound: the dialogs of a behaviour
    MaxTaps,    \* bound: the taps of a behaviour
    DialogKinds,\* the kinds the agent opens
    Alike,      \* its prompts have the same question and labels
    QuietPane   \* while a tap is served, nobody else touches the pane

\* "question": single choice, with its options in the transcript; "permit":
\* options on the pane only; "multi": check boxes, then a review screen.
ASSUME DialogAssumption ==
    /\ MaxDialogs \in Nat /\ MaxTaps \in Nat /\ {Alike, QuietPane} \subseteq BOOLEAN
    /\ DialogKinds \subseteq {"question", "permit", "multi"}

Boxes == 1..2

VARIABLES
    dialog,    \* what the pane shows
    opened,    \* the dialogs opened so far
    said,      \* the transcript: the last tool_use and whether its result follows
    waiting,   \* the record says WAITING
    card,      \* what the page renders
    tap,       \* the request that is served, and those served before
    landed     \* the keys a tap sent: meant for which dialog, and on which

dlgVars == <<dialog, opened, said, waiting, card, tap, landed>>

NoDialog == [no |-> 0, kind |-> "none", checked |-> {}]
NoCard == [id |-> None, no |-> 0, kind |-> "none"]
NoTap == [pc |-> "idle", count |-> 0, card |-> NoCard, want |-> {}, flip |-> {}]

DialogTypeOK ==
    /\ dialog \in [no: 0..MaxDialogs, checked: SUBSET Boxes,
                   kind: {"none", "question", "permit", "multi", "review"}]
    /\ opened \in 0..MaxDialogs /\ waiting \in BOOLEAN
    /\ said \in [no: 0..MaxDialogs, kind: {"none"} \cup DialogKinds, answered: BOOLEAN]
    /\ tap.pc \in {"idle", "check", "key", "again", "flip", "right", "review", "enter"}
    /\ tap.count \in 0..MaxTaps
    /\ landed \subseteq [key: {"digit", "enter", "submit"}, for: 0..MaxDialogs,
                         on: 0..MaxDialogs, set: SUBSET Boxes, want: SUBSET Boxes]

DialogInit ==
    /\ dialog = NoDialog /\ opened = 0 /\ waiting = FALSE
    /\ said = [no |-> 0, kind |-> "none", answered |-> TRUE]
    /\ card = NoCard /\ tap = NoTap /\ landed = {}

----------------------------------------------------------------------------
(* The agent and its user at the terminal.                                  *)

Quiet == QuietPane => tap.pc = "idle"

OpenDialog(kind) ==
    /\ dialog.kind = "none" /\ opened < MaxDialogs /\ Quiet
    /\ opened' = opened + 1
    /\ dialog' = [no |-> opened + 1, kind |-> kind, checked |-> {}]
    /\ UNCHANGED <<said, waiting, card, tap, landed>>

\* The transcript gets the tool_use, and later its result.
Flush ==
    /\ \/ said.answered /\ said.no < dialog.no
          /\ said' = [no |-> dialog.no, kind |-> dialog.kind, answered |-> FALSE]
          /\ dialog.kind \in DialogKinds
       \/ ~said.answered /\ said.no # dialog.no /\ said' = [said EXCEPT !.answered = TRUE]
    /\ UNCHANGED <<dialog, opened, waiting, card, tap, landed>>

\* The hooks of the agent record its state, each some time after the fact.
RecordWaiting ==
    /\ waiting' = (dialog.kind # "none") /\ waiting' # waiting /\ Quiet
    /\ UNCHANGED <<dialog, opened, said, card, tap, landed>>

UserToggles(b) ==
    /\ dialog.kind = "multi" /\ Quiet
    /\ dialog' = [dialog EXCEPT !.checked = (@ \ {b}) \cup ({b} \ @)]
    /\ UNCHANGED <<opened, said, waiting, card, tap, landed>>

UserAnswers ==
    /\ dialog.kind # "none" /\ Quiet /\ dialog' = NoDialog
    /\ UNCHANGED <<opened, said, waiting, card, tap, landed>>

----------------------------------------------------------------------------
(* What the server makes of transcript and pane.                            *)

\* The hash of question and cleaned labels: not of the check marks.
HashOf(d) == <<"pane", d.kind, IF Alike THEN 0 ELSE d.no>>

\* _blocked_state: an answerable question of the transcript, or the pane.
Blocked ==
    IF ~waiting THEN NoCard
    ELSE IF ~said.answered /\ said.kind = "question"
         THEN [id |-> <<"tool", said.no>>, no |-> said.no, kind |-> "question"]
    ELSE IF dialog.kind # "none" THEN [id |-> HashOf(dialog), no |-> dialog.no, kind |-> dialog.kind]
    ELSE NoCard

\* The feed brings the page what is blocked now.
PushCard ==
    /\ card' = Blocked /\ card' # card
    /\ UNCHANGED <<dialog, opened, said, waiting, tap, landed>>

----------------------------------------------------------------------------
(* answer_question.                                                         *)

Tap ==
    /\ tap.pc = "idle" /\ tap.count < MaxTaps /\ card.id # None
    /\ \E want \in IF card.kind = "multi" THEN (SUBSET Boxes) \ {{}} ELSE {{}} :
         tap' = [pc |-> "check", count |-> tap.count + 1, card |-> card, want |-> want, flip |-> {}]
    /\ UNCHANGED <<dialog, opened, said, waiting, card, landed>>

Answered == tap' = [NoTap EXCEPT !.count = tap.count]
Goes(pc) == tap' = [tap EXCEPT !.pc = pc]

\* A slip: the dialog is not compared with the one rendered.
SameDialogBlind(now) == TRUE
SameDialog(now) == now.id = tap.card.id

Flips(checked) == {b \in Boxes : (b \in tap.want) # (b \in checked)}

\* The dialog now must be the one that was rendered.
CheckTap ==
    /\ tap.pc = "check"
    /\ IF Blocked.id = None \/ ~SameDialog(Blocked) THEN Answered
       ELSE IF Blocked.kind = "multi"
       THEN tap' = [tap EXCEPT !.pc = "flip", !.flip = Flips(dialog.checked)]
       ELSE Goes("key")
    /\ UNCHANGED <<dialog, opened, said, waiting, card, landed>>

Lands(key) ==
    landed' = landed \cup {[key |-> key, for |-> tap.card.no, on |-> dialog.no,
                            set |-> dialog.checked, want |-> tap.want]}

\* The digit: some dialogs take it as the answer, some only select.
SendDigit ==
    /\ tap.pc = "key" /\ Goes("again") /\ Lands("digit")
    /\ dialog' \in {dialog, NoDialog}
    /\ UNCHANGED <<opened, said, waiting, card>>

\* Enter only if the same dialog is still up on the pane.
LookAgain ==
    /\ tap.pc = "again"
    /\ IF dialog.kind # "none" /\ HashOf(dialog) = tap.card.id THEN Goes("enter") ELSE Answered
    /\ UNCHANGED <<dialog, opened, said, waiting, card, landed>>

SendEnter ==
    /\ tap.pc = "enter" /\ Answered /\ Lands("enter")
    /\ dialog' = NoDialog
    /\ UNCHANGED <<opened, said, waiting, card>>

\* _answer_multiselect: flip what differs, one digit each, go right to the
\* review screen, and submit there, whether the digit was enough or not.
SendFlip ==
    /\ tap.pc = "flip" /\ tap.flip # {} /\ Lands("digit")
    /\ LET b == CHOOSE n \in tap.flip : \A m \in tap.flip : n <= m IN
       /\ tap' = [tap EXCEPT !.flip = @ \ {b}]
       /\ dialog' = IF dialog.kind # "multi" THEN dialog
                    ELSE [dialog EXCEPT !.checked = (@ \ {b}) \cup ({b} \ @)]
    /\ UNCHANGED <<opened, said, waiting, card>>

SendRight ==
    /\ tap.pc = "flip" /\ tap.flip = {} /\ Goes("review")
    /\ dialog' = IF dialog.kind = "multi" THEN [dialog EXCEPT !.kind = "review"] ELSE dialog
    /\ UNCHANGED <<opened, said, waiting, card, landed>>

SubmitReview ==
    /\ tap.pc = "review"
    /\ IF dialog.kind # "review" THEN Answered /\ UNCHANGED <<dialog, landed>>
       ELSE Goes("enter") /\ Lands("submit") /\ dialog' \in {dialog, NoDialog}
    /\ UNCHANGED <<opened, said, waiting, card>>

DialogNext ==
    \/ \E kind \in DialogKinds : OpenDialog(kind)
    \/ \E b \in Boxes : UserToggles(b)
    \/ Flush \/ RecordWaiting \/ UserAnswers \/ PushCard \/ Tap \/ CheckTap \/ SendDigit
    \/ LookAgain \/ SendEnter \/ SendFlip \/ SendRight \/ SubmitReview

DialogSpec == DialogInit /\ [][DialogNext]_dlgVars

----------------------------------------------------------------------------
(* Properties.                                                              *)

\* However long the page has been showing it, the keys of a tap reach the dialog
\* that was rendered; an Enter may come after it has gone (server.py: a stale tap
\* sends nothing).
ReachesTheRendered ==
    \A k \in landed : k.on = k.for \/ (k.key = "enter" /\ k.on = 0)

\* What is submitted on the review screen is what was wanted, whatever had been
\* checked on the terminal before the tap.
SubmitsTheWanted == \A k \in landed : k.key = "submit" => k.set = k.want

\* A tap does what its card said: to the dialog it showed and with the boxes it showed
\* (server.py: a stale tap sends nothing).
TapsDoAsShown == ReachesTheRendered /\ SubmitsTheWanted
=============================================================================
