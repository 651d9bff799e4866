------------------------------ MODULE PostSlot ------------------------------
(***************************************************************************)
(* The pages between a clicked slot and the reservation form: what         *)
(* inspectPostSlot takes a page for and what PostSlotAdapter.advance does  *)
(* with it (src/src/content/adapter/post-slot-inspection.ts, post-slot.ts  *)
(* and dialog.ts).                                                         *)
(*                                                                         *)
(* A page is the set of surfaces it shows; labels and titles, by which a   *)
(* dialog is recognized, are abstracted to the kind they stand for.        *)
(***************************************************************************)
EXTENDS Naturals, FiniteSets

Dialogs == {"table_type", "menu", "extras", "deposit_notice", "deposit", "unknown"}
PostSlotKinds == Dialogs \cup {"payment_method_notice", "request_notice", "seating_menu",
                               "promo_interstitial", "form", "form_notice", "waiting"}

\* formUrl: the page is the reservation form; notice: a button that closes a notice
\* over it; payment: the notice with the button "reserve in this way"; dialog: the
\* uppermost dialog; sheets below have no dialog role.
Pages == [formUrl : BOOLEAN, notice : BOOLEAN, payment : BOOLEAN, dialog : Dialogs \cup {"none"},
          request : BOOLEAN, seating : BOOLEAN, promo : BOOLEAN]

\* inspectPostSlot: the first surface that fits decides.
kindOf(p) ==
  IF p.formUrl THEN IF p.notice THEN "form_notice" ELSE "form"
  ELSE IF p.payment THEN "payment_method_notice"
  ELSE IF p.dialog # "none" THEN p.dialog
  ELSE IF p.request THEN "request_notice"
  ELSE IF p.seating THEN "seating_menu"
  ELSE IF p.promo THEN "promo_interstitial" ELSE "waiting"

-----------------------------------------------------------------------------
(* One stage *)

\* What advance reads of a stage.  choice: there are no enabled choices, not the one
\* configured, another one is selected, too few of the wanted one are ("off"), too many are
\* ("over"), or just as many as are wanted ("on"; at check boxes one, at counters as many as
\* persons); stuck: the control to change that is disabled; button: the progress button;
\* again: it was pressed before; zero: the payment method of 0 won, and chosen: any other one
\* is selected.
Facts ==
  [choice : {"none", "foreign", "other", "off", "over", "on"}, stuck : BOOLEAN,
   button : {"missing", "disabled", "ready"}, again : BOOLEAN,
   zero : {"none", "disabled", "off", "on"}, chosen : BOOLEAN]

did(status, press) == [status |-> status, press |-> press]
acted(press) == did("acted", press)
blocked == did("blocked", "none")
waiting == did("waiting", "none")

clickProgress(f) ==
  IF f.button = "missing" THEN blocked
  ELSE IF f.button = "disabled" THEN waiting ELSE acted("progress")

\* A radio group: another selection goes with the click on the wanted one.
advanceTable(f) ==
  IF f.choice = "none" THEN waiting
  ELSE IF f.choice = "foreign" THEN blocked
  ELSE IF f.choice = "on" THEN clickProgress(f) ELSE acted("choice")

\* Check boxes, or counters (stuck: the counter's button is missing or disabled).
advanceMenu(f) ==
  IF f.choice = "none" THEN waiting
  ELSE IF f.choice = "foreign" \/ (f.choice # "on" /\ f.stuck) THEN blocked
  ELSE IF f.choice = "on" THEN clickProgress(f) ELSE acted("choice")

\* The progress button of this sheet is pressed once.
advanceSeatingMenu(f) ==
  IF f.choice \in {"none", "foreign"} THEN blocked
  ELSE IF f.choice # "on" THEN acted("choice")
  ELSE IF f.button # "ready" \/ f.again THEN waiting ELSE acted("progress")

\* A choice on the notice is for the user to make.
advanceDepositNotice(f) == IF f.choice # "none" THEN blocked ELSE clickProgress(f)

\* Mutant: the policy is not looked at.
advanceAnyDeposit(f, zeroOnly) ==
  IF f.zero = "disabled" THEN waiting
  ELSE IF f.zero = "none" /\ ~f.chosen THEN blocked
  ELSE IF f.zero = "off" THEN acted("zero") ELSE clickProgress(f)

\* 0 won is chosen where it is offered; else the selected method, if the policy lets it.
advanceDeposit(f, zeroOnly) ==
  IF f.zero = "disabled" THEN waiting
  ELSE IF f.zero = "none" /\ (zeroOnly \/ ~f.chosen) THEN blocked
  ELSE IF f.zero = "off" THEN acted("zero") ELSE clickProgress(f)

\* advance for the kind that inspect just reported; still: it reports it again.
advance(kind, still, f, auto, zeroOnly) ==
  IF ~still THEN waiting
  ELSE IF kind = "table_type" THEN advanceTable(f)
  ELSE IF kind = "menu" THEN advanceMenu(f)
  ELSE IF kind = "seating_menu" THEN advanceSeatingMenu(f)
  ELSE IF kind \in {"extras", "request_notice"} THEN clickProgress(f)
  ELSE IF kind = "deposit_notice" THEN advanceDepositNotice(f)
  ELSE IF kind \in {"deposit", "payment_method_notice"} /\ ~auto THEN blocked
  ELSE IF kind = "deposit" THEN advanceDeposit(f, zeroOnly)
  ELSE IF kind = "payment_method_notice" THEN acted("method")
  ELSE acted("dismiss")

\* The payment that such a step agrees to: the deposit of 0 won, the method selected by
\* the site, or paying automatically.
agreesTo(kind, f, act) ==
  IF act.status # "acted" THEN {}
  ELSE IF kind = "payment_method_notice" THEN {"notice"}
  ELSE IF kind # "deposit" THEN {}
  ELSE IF f.zero = "none" THEN {"selected"} ELSE {"zero"}

Kinds == {kindOf(p) : p \in Pages}

\* All that advance may do with a kind of page under a policy.
outcomes ==
  [at \in [kind : Kinds \ {"form", "waiting", "unknown"}, auto : BOOLEAN, zeroOnly : BOOLEAN] |->
     {LET act == advance(at.kind, still, f, at.auto, at.zeroOnly) IN
        [status |-> act.status, pays |-> agreesTo(at.kind, f, act)] :
          f \in Facts, still \in BOOLEAN}]
=============================================================================
