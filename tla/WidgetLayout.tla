---------------------------- MODULE WidgetLayout ----------------------------
(***************************************************************************)
(* The rows of the messages ServerStatusComponent draws: the server widget *)
(* and the replies to its menus and buttons.  Discord takes a message of   *)
(* at most MaxRows rows, each of some buttons or of one menu, and refuses  *)
(* anything else as a whole; the code keeps to that by the limits it puts  *)
(* on servers and buttons, and by where it adds one more button.           *)
(*                                                                         *)
(* A row says how many buttons it has, or how many options its menu offers *)
(* and how few and how many of them may be chosen.                         *)
(***************************************************************************)
EXTENDS Integers, Sequences

CONSTANTS
    MaxServers,     \* ServerSelect::MaxServers
    MaxButtons,     \* Server::CustomButton::MaxButtons
    ButtonsPerRow,  \* Server::CustomButton::ButtonsPerRow
    MaxRows,        \* Discord: rows of a message
    MaxWidth,       \* Discord: buttons in a row
    MaxOptions      \* Discord: options of a menu

\* As in the program, with 25, 19 and 5, and Discord's 5, 5 and 25: there is
\* room for one more button and for the menu.
ASSUME LayoutAssumption ==
    /\ {MaxServers, MaxButtons, MaxRows, MaxWidth, MaxOptions} \subseteq Nat
    /\ ButtonsPerRow \in 1 .. MaxWidth
    /\ 2 <= MaxWidth /\ 2 <= MaxRows
    /\ MaxButtons < ButtonsPerRow * (MaxRows - 1)
    /\ MaxButtons <= MaxOptions /\ MaxServers <= MaxOptions

ButtonRow(n) == [kind |-> "buttons", width |-> n]
MenuRow(n, least, most) == [kind |-> "menu", options |-> n, least |-> least, most |-> most]

\* What Discord accepts.
RowFits(row) ==
    IF row.kind = "buttons" THEN row.width \in 1 .. MaxWidth
    ELSE /\ row.options \in 1 .. MaxOptions
         /\ row.least <= row.most /\ row.most <= row.options

Fits(rows) == Len(rows) \in 1 .. MaxRows /\ \A i \in DOMAIN rows : RowFits(rows[i])

-----------------------------------------------------------------------------

\* getButtonRows, of n buttons: full rows and one with the rest.
RowCount(n) == (n + ButtonsPerRow - 1) \div ButtonsPerRow

getButtonRows(n) ==
    [i \in 1 .. RowCount(n) |->
        ButtonRow(IF i * ButtonsPerRow <= n THEN ButtonsPerRow
                                           ELSE n - (i - 1) * ButtonsPerRow)]

\* One more button: in the last row, or in one of its own if that is full.
WithOneMore(rows) ==
    IF rows = <<>> \/ rows[Len(rows)].width % ButtonsPerRow = 0
    THEN Append(rows, ButtonRow(1))
    ELSE [rows EXCEPT ![Len(rows)].width = @ + 1]

\* getServerStatusWidget: the pinned server's n buttons, the settings button,
\* and a menu of the listed servers that are stored.
StatusWidgetRows(n, listed, stored) ==
    WithOneMore(getButtonRows(n))
      \o IF listed = 0 THEN <<>> ELSE <<MenuRow(stored, 0, 1)>>

\* onSelectQueryServer: the server's buttons and its settings button.
QueryRows(n) == WithOneMore(getButtonRows(n))

\* onWidgetSettingsButton: a menu to pin a server, and two buttons.
WidgetSettingsRows(listed, stored) ==
    (IF listed = 0 THEN <<>> ELSE <<MenuRow(stored, 1, 1)>>) \o <<ButtonRow(2)>>

\* getRemoveServerComponent: as many may be chosen as are listed.
RemoveServerRows(listed, stored) == <<MenuRow(stored, 1, listed)>>

\* getServerSettingsRows.
ServerSettingsRows == <<ButtonRow(2)>>

\* getRemoveCustomButtonComponent.
RemoveButtonRows(n) == <<MenuRow(n, 1, n)>>
=============================================================================
