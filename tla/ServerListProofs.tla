--------------------------- MODULE ServerListProofs ---------------------------
(***************************************************************************)
(* Theorems about ServerList, for any servers, buttons, handlers and       *)
(* configuration objects, and any set of faults.                           *)
(***************************************************************************)
EXTENDS ServerList, SequenceTheorems, FiniteSetTheorems, TLAPS

(* The messages of WidgetLayout: every one drawn within the limits on      *)
(* servers and buttons is one that Discord takes, whatever the limits are, *)
(* as long as they leave room for one more button and for a menu.  The     *)
(* numbers of the program are one instance.                                *)

\* n buttons make as many rows as they need and no more.
LEMMA EnoughRows ==
    ASSUME NEW n \in Nat
    PROVE  /\ RowCount(n) \in Nat
           /\ n <= RowCount(n) * ButtonsPerRow
           /\ RowCount(n) * ButtonsPerRow < n + ButtonsPerRow
<1> DEFINE m == n + ButtonsPerRow - 1
<1>1. ButtonsPerRow \in Nat /\ 0 < ButtonsPerRow
      BY LayoutAssumption
<1>2. m \in Nat
      BY <1>1
<1>3. /\ m \div ButtonsPerRow \in Nat
      /\ m % ButtonsPerRow \in 0 .. (ButtonsPerRow - 1)
      /\ m = (m \div ButtonsPerRow) * ButtonsPerRow + (m % ButtonsPerRow)
      <2> HIDE DEF m
      <2>1. QED
            BY <1>1, <1>2, SMT
<1>4. (m \div ButtonsPerRow) * ButtonsPerRow \in Nat
      BY <1>1, <1>3
<1>5. RowCount(n) = m \div ButtonsPerRow
      BY DEF RowCount
<1>6. QED
      BY <1>1, <1>3, <1>4, <1>5

\* Each of these rows has a button, and none more than a row of the program has.
LEMMA FullRows ==
    ASSUME NEW n \in Nat, NEW i \in 1 .. RowCount(n)
    PROVE  /\ getButtonRows(n)[i].kind = "buttons"
           /\ getButtonRows(n)[i].width \in 1 .. ButtonsPerRow
<1>1. ButtonsPerRow \in Nat /\ 0 < ButtonsPerRow
      BY LayoutAssumption
<1>2. RowCount(n) \in Nat /\ RowCount(n) * ButtonsPerRow < n + ButtonsPerRow
      BY EnoughRows
<1>3. i \in Nat /\ i - 1 \in Nat /\ i <= RowCount(n)
      BY <1>2
<1>4. /\ i * ButtonsPerRow \in Nat
      /\ (i - 1) * ButtonsPerRow = i * ButtonsPerRow - ButtonsPerRow
      BY <1>1, <1>3
<1>5. i * ButtonsPerRow <= RowCount(n) * ButtonsPerRow
      BY <1>1, <1>2, <1>3
<1>6. (i - 1) * ButtonsPerRow < n
      BY <1>1, <1>2, <1>4, <1>5
<1>7. ~(i * ButtonsPerRow <= n) => n - (i - 1) * ButtonsPerRow \in 1 .. ButtonsPerRow
      BY <1>1, <1>4, <1>6
<1>8. getButtonRows(n)[i] = ButtonRow(IF i * ButtonsPerRow <= n THEN ButtonsPerRow
                                      ELSE n - (i - 1) * ButtonsPerRow)
      BY DEF getButtonRows
<1>9. QED
      BY <1>1, <1>7, <1>8 DEF ButtonRow

\* A function on 1 .. n is a sequence.
LEMMA FunctionIsSequence ==
    ASSUME NEW S, NEW n \in Nat, NEW f \in [1 .. n -> S]
    PROVE  f \in Seq(S) /\ Len(f) = n /\ DOMAIN f = 1 .. n
OBVIOUS

\* The rows of n buttons, as a sequence.
LEMMA RowSequence ==
    ASSUME NEW n \in Nat
    PROVE  /\ getButtonRows(n) \in Seq([kind : {"buttons"}, width : 1 .. ButtonsPerRow])
           /\ Len(getButtonRows(n)) = RowCount(n)
           /\ DOMAIN getButtonRows(n) = 1 .. RowCount(n)
<1>1. RowCount(n) \in Nat
      BY EnoughRows
<1>2. DOMAIN getButtonRows(n) = 1 .. RowCount(n)
      BY DEF getButtonRows
<1>3. ASSUME NEW i \in 1 .. RowCount(n)
      PROVE  getButtonRows(n)[i] \in [kind : {"buttons"}, width : 1 .. ButtonsPerRow]
      <2>1. getButtonRows(n)[i].width \in 1 .. ButtonsPerRow
            BY FullRows
      <2>2. \E w : getButtonRows(n)[i] = [kind |-> "buttons", width |-> w]
            BY DEF getButtonRows, ButtonRow
      <2>3. QED
            BY <2>1, <2>2
<1>4. getButtonRows(n) \in [1 .. RowCount(n) -> [kind : {"buttons"}, width : 1 .. ButtonsPerRow]]
      BY <1>2, <1>3 DEF getButtonRows
<1> HIDE DEF getButtonRows
<1>5. QED
      BY <1>1, <1>4, FunctionIsSequence

\* A row of at most ButtonsPerRow buttons fits, and so does a menu of as many
\* options as there are servers or buttons.
LEMMA SmallRowFits ==
    /\ \A w \in 1 .. ButtonsPerRow : RowFits(ButtonRow(w))
    /\ RowFits(ButtonRow(1)) /\ RowFits(ButtonRow(2))
    /\ \A n \in 1 .. MaxOptions : \A m \in 0 .. n, l \in {0, 1} :
          l <= m => RowFits(MenuRow(n, l, m))
BY LayoutAssumption DEF RowFits, ButtonRow, MenuRow

\* With one more button the rows leave room for a menu.
LEMMA OneMoreFits ==
    ASSUME NEW n \in 0 .. MaxButtons
    PROVE  LET rows == WithOneMore(getButtonRows(n))
           IN  /\ rows \in Seq([kind : {"buttons"}, width : 1 .. ButtonsPerRow])
               /\ Len(rows) \in 1 .. (MaxRows - 1)
<1> DEFINE Row == [kind : {"buttons"}, width : 1 .. ButtonsPerRow]
           rows == getButtonRows(n)
           N == RowCount(n)
<1>1. /\ ButtonsPerRow \in Nat /\ 0 < ButtonsPerRow
      /\ MaxRows - 1 \in Nat /\ 1 <= MaxRows - 1
      /\ n \in Nat /\ n < ButtonsPerRow * (MaxRows - 1)
      BY LayoutAssumption
<1>2. N \in Nat /\ n <= N * ButtonsPerRow /\ N * ButtonsPerRow < n + ButtonsPerRow
      BY <1>1, EnoughRows
<1>3. rows \in Seq(Row) /\ Len(rows) = N /\ DOMAIN rows = 1 .. N
      BY <1>1, RowSequence
<1>4. N <= MaxRows - 1
      <2>1. SUFFICES ASSUME MaxRows - 1 <= N - 1 PROVE FALSE
            BY <1>1, <1>2
      <2>2. ButtonsPerRow * (MaxRows - 1) <= ButtonsPerRow * (N - 1)
            BY <1>1, <1>2, <2>1
      <2>3. ButtonsPerRow * (N - 1) = N * ButtonsPerRow - ButtonsPerRow
            BY <1>1, <1>2
      <2>4. /\ ButtonsPerRow * (MaxRows - 1) \in Int
            /\ N * ButtonsPerRow \in Int
            BY <1>1, <1>2
      <2>5. QED
            BY <1>1, <1>2, <2>2, <2>3, <2>4
<1>5. CASE rows = <<>> \/ rows[Len(rows)].width % ButtonsPerRow = 0
      <2>1. WithOneMore(rows) = Append(rows, ButtonRow(1))
            BY <1>5 DEF WithOneMore
      <2>2. ButtonRow(1) \in Row
            BY <1>1 DEF ButtonRow
      <2>3. N < MaxRows - 1
            <3>1. CASE rows = <<>>
                  BY <1>1, <1>3, <3>1
            <3>2. CASE N # 0
                  <4>1. N \in 1 .. N /\ rows[N].width % ButtonsPerRow = 0
                        BY <1>2, <1>3, <1>5, <3>2
                  <4>2. rows[N].width \in 1 .. ButtonsPerRow
                        BY <1>1, <4>1, FullRows
                  <4>3. rows[N].width = ButtonsPerRow
                        BY <1>1, <4>1, <4>2
                  <4>4. rows[N].width = IF N * ButtonsPerRow <= n THEN ButtonsPerRow
                                        ELSE n - (N - 1) * ButtonsPerRow
                        BY <4>1 DEF getButtonRows, ButtonRow
                  <4>5. /\ N * ButtonsPerRow \in Int
                        /\ (N - 1) * ButtonsPerRow = N * ButtonsPerRow - ButtonsPerRow
                        BY <1>1, <1>2
                  <4>6. n = N * ButtonsPerRow
                        <5> HIDE DEF N
                        <5>1. QED
                              BY <1>1, <1>2, <4>3, <4>4, <4>5
                  <4>7. QED
                        <5> HIDE DEF N
                        <5>1. ButtonsPerRow * N < ButtonsPerRow * (MaxRows - 1)
                              BY <1>1, <1>2, <4>6
                        <5>2. QED
                              BY <1>1, <1>2, <1>4, <5>1
            <3>3. QED
                  BY <1>3, <3>1, <3>2
      <2>4. QED
            BY <1>1, <1>2, <1>3, <2>1, <2>2, <2>3
<1>6. CASE rows # <<>> /\ rows[Len(rows)].width % ButtonsPerRow # 0
      <2>1. N \in 1 .. N
            BY <1>2, <1>3, <1>6
      <2>2. WithOneMore(rows) = [rows EXCEPT ![N].width = @ + 1]
            BY <1>3, <1>6 DEF WithOneMore
      <2>3. rows[N].width \in 1 .. ButtonsPerRow /\ rows[N].width # ButtonsPerRow
            BY <1>1, <1>3, <1>6, <2>1, FullRows
      <2>4. rows[N] \in Row
            <3> HIDE DEF rows, N
            <3>1. QED
                  BY <1>3, <2>1, ElementOfSeq
      <2> DEFINE last == [rows[N] EXCEPT !.width = rows[N].width + 1]
      <2>5. last \in Row
            <3>1. rows[N].width + 1 \in 1 .. ButtonsPerRow
                  BY <1>1, <2>3
            <3> HIDE DEF rows, N
            <3>2. QED
                  BY <2>4, <3>1
      <2>6. WithOneMore(rows) = [rows EXCEPT ![N] = last]
            BY <2>2
      <2>7. [rows EXCEPT ![N] = last] \in Seq(Row) /\ Len([rows EXCEPT ![N] = last]) = N
            <3> HIDE DEF rows, N, last
            <3>1. QED
                  BY <1>3, <2>1, <2>5, ExceptSeq
      <2>8. QED
            BY <1>1, <1>2, <1>4, <2>1, <2>6, <2>7
<1>7. QED
      BY <1>5, <1>6

\* Rows of buttons, and a menu after or before them.
LEMMA ButtonsAndMenuFit ==
    ASSUME NEW rows \in Seq([kind : {"buttons"}, width : 1 .. ButtonsPerRow]),
           Len(rows) \in 1 .. (MaxRows - 1),
           NEW menu, RowFits(menu)
    PROVE  /\ Fits(rows)
           /\ Fits(rows \o <<menu>>)
           /\ Fits(<<menu>> \o rows)
<1>1. MaxRows \in Nat /\ 2 <= MaxRows
      BY LayoutAssumption
<1>2. ASSUME NEW i \in DOMAIN rows PROVE RowFits(rows[i])
      <2>1. rows[i] \in [kind : {"buttons"}, width : 1 .. ButtonsPerRow]
            BY ElementOfSeq, LenProperties
      <2>2. rows[i] = ButtonRow(rows[i].width) /\ rows[i].width \in 1 .. ButtonsPerRow
            BY <2>1 DEF ButtonRow
      <2>3. QED
            BY <2>2, SmallRowFits
<1>3. Fits(rows)
      BY <1>1, <1>2 DEF Fits
<1>4. Fits(rows \o <<menu>>)
      <2>1. /\ Len(rows \o <<menu>>) = Len(rows) + 1
            /\ DOMAIN (rows \o <<menu>>) = 1 .. (Len(rows) + 1)
            OBVIOUS
      <2>2. \A i \in 1 .. (Len(rows) + 1) :
                (rows \o <<menu>>)[i] = IF i = Len(rows) + 1 THEN menu ELSE rows[i]
            OBVIOUS
      <2>3. QED
            BY <1>1, <1>2, <2>1, <2>2 DEF Fits
<1>5. Fits(<<menu>> \o rows)
      <2>1. /\ Len(<<menu>> \o rows) = Len(rows) + 1
            /\ DOMAIN (<<menu>> \o rows) = 1 .. (Len(rows) + 1)
            OBVIOUS
      <2>2. \A i \in 1 .. (Len(rows) + 1) :
                (<<menu>> \o rows)[i] = IF i = 1 THEN menu ELSE rows[i - 1]
            OBVIOUS
      <2>3. QED
            BY <1>1, <1>2, <2>1, <2>2 DEF Fits
<1>6. QED
      BY <1>3, <1>4, <1>5

\* A guild with l servers, all of them stored, and a server with n buttons: every
\* message that is drawn of them fits, up to both limits of the program.
THEOREM DrawnMessagesFit ==
    ASSUME NEW n \in 0 .. MaxButtons, NEW l \in 0 .. MaxServers
    PROVE  /\ Fits(StatusWidgetRows(n, l, l))
           /\ Fits(QueryRows(n))
           /\ Fits(WidgetSettingsRows(l, l))
           /\ l # 0 => Fits(RemoveServerRows(l, l))
           /\ Fits(ServerSettingsRows)
           /\ n # 0 => Fits(RemoveButtonRows(n))
<1> DEFINE rows == WithOneMore(getButtonRows(n))
<1>1. /\ MaxRows \in Nat /\ 2 <= MaxRows
      /\ n \in 0 .. MaxOptions /\ l \in 0 .. MaxOptions
      BY LayoutAssumption
<1>2. /\ rows \in Seq([kind : {"buttons"}, width : 1 .. ButtonsPerRow])
      /\ Len(rows) \in 1 .. (MaxRows - 1)
      BY OneMoreFits
<1>3. ASSUME NEW row, RowFits(row) PROVE Fits(<<row>>)
      BY <1>1, <1>3 DEF Fits
<1>4. /\ l # 0 => /\ RowFits(MenuRow(l, 0, 1)) /\ RowFits(MenuRow(l, 1, 1))
                  /\ RowFits(MenuRow(l, 1, l))
      /\ n # 0 => RowFits(MenuRow(n, 1, n))
      BY <1>1, SmallRowFits
<1>5. RowFits(ButtonRow(2))
      BY SmallRowFits
<1>6. Fits(rows)
      <2> HIDE DEF rows
      <2>1. QED
            BY <1>2, <1>5, ButtonsAndMenuFit
<1>7. Fits(StatusWidgetRows(n, l, l))
      <2>1. CASE l = 0
            <3>1. StatusWidgetRows(n, l, l) = rows \o <<>>
                  BY <2>1 DEF StatusWidgetRows
            <3> HIDE DEF rows
            <3>2. rows \o <<>> = rows
                  BY <1>2, ConcatEmptySeq
            <3>3. QED
                  BY <1>6, <3>1, <3>2
      <2>2. CASE l # 0
            <3>1. StatusWidgetRows(n, l, l) = rows \o <<MenuRow(l, 0, 1)>>
                  BY <2>2 DEF StatusWidgetRows
            <3> HIDE DEF rows
            <3>2. QED
                  BY <1>2, <1>4, <2>2, <3>1, ButtonsAndMenuFit
      <2>3. QED
            BY <2>1, <2>2
<1>8. Fits(WidgetSettingsRows(l, l))
      <2>1. CASE l = 0
            <3>1. WidgetSettingsRows(l, l) = <<ButtonRow(2)>>
                  BY <2>1 DEF WidgetSettingsRows
            <3>2. QED
                  BY <1>3, <1>5, <3>1
      <2>2. CASE l # 0
            <3>1. WidgetSettingsRows(l, l) = <<MenuRow(l, 1, 1)>> \o <<ButtonRow(2)>>
                  BY <2>2 DEF WidgetSettingsRows
            <3>2. QED
                  <4>1. \A a, b : RowFits(a) /\ RowFits(b) => Fits(<<a>> \o <<b>>)
                        BY <1>1 DEF Fits
                  <4>2. QED
                        BY <1>4, <1>5, <2>2, <3>1, <4>1
      <2>3. QED
            BY <2>1, <2>2
<1>9. QED
      BY <1>3, <1>4, <1>5, <1>6, <1>7, <1>8
      DEF QueryRows, RemoveServerRows, ServerSettingsRows, RemoveButtonRows

-----------------------------------------------------------------------------
(* The invariant that every variable has its type *)

ConfigType ==
    [servers : SUBSET Server, pin : Server \cup {None}, active : Server \cup {None},
     building : BOOLEAN, draft : Drawing \cup {None}, agent : BOOLEAN,
     message : Message \cup {None}]

DocType ==
    [servers : SUBSET Server, pin : Server \cup {None}, agent : BOOLEAN,
     message : Message \cup {None}]

\* What the frame of a handler holds at each of its steps.
FrameOK ==
    \A h \in Handler :
       /\ pc[h] \notin {"idle", "find"} => cfg[h] \in ConfigRef
       /\ pc[h] = "save" => op[h].kind = "addServer"
       /\ pc[h] \in {"unpin", "delete"} => op[h].kind = "removeServers"
       /\ pc[h] = "push" => op[h].kind = "addButton"

Typed == TypeOK /\ FrameOK

\* The widgets in Discord and the edits on their way there.
DiscordOK ==
    /\ shown \in [Message -> Drawing \cup {None}]
    /\ edits \subseteq [message : Message, draws : Drawing, last : BOOLEAN]
    /\ behind \subseteq Message

USE DEF ButtonsOf, DiscordOK, discordVars, idVars

\* What TypeOK says of the objects and the documents.
LEMMA TypedState ==
    ASSUME Typed
    PROVE  /\ pc \in [Handler -> {"idle", "find", "found", "save", "unpin", "delete", "push"}]
           /\ op \in [Handler -> Request \cup {NoRequest}]
           /\ cfg \in [Handler -> ConfigRef \cup {None}]
           /\ gone \in [Handler -> SUBSET Server]
           /\ heap \in [ConfigRef -> ConfigType]
           /\ cache \in ConfigRef \cup {None}
           /\ known \subseteq Server
           /\ buttons \in [Server -> SUBSET Button]
           /\ doc \in DocType \cup {NoDocument}
           /\ DOMAIN docs \subseteq Server /\ docs \in [DOMAIN docs -> SUBSET Button]
           /\ DiscordOK
           /\ used \subseteq Server \cup Button \cup Message \cup Config
           /\ removed \subseteq Server \cup Button
           /\ incident \subseteq Incident
BY DEF Typed, TypeOK, ConfigType, DocType

\* The fields of a request.
LEMMA RequestFields ==
    ASSUME NEW q \in Request \cup {NoRequest}
    PROVE  /\ q.kind \in {"addServer", "pin", "addButton", "removeButtons"} => q.server \in Server
           /\ q.kind = "addButton" => q.button \in Button
           /\ q.kind = "removeButtons" => q.buttons \subseteq Button
           /\ q.kind = "removeServers" => q.servers \subseteq Server
BY DEF Request, NoRequest

\* The operators on a configuration object keep its type.
LEMMA ConfigOperators ==
    ASSUME NEW config \in ConfigType
    PROVE  /\ \A s \in Server : /\ [config EXCEPT !.servers = @ \cup {s}] \in ConfigType
                                /\ [config EXCEPT !.pin = s, !.active = s] \in ConfigType
           /\ \A S \in SUBSET Server : /\ Unlisted(config, S) \in ConfigType
                                       /\ Unpinned(config, S) \in ConfigType
BY DEF ConfigType, Unlisted, Unpinned

LEMMA BlankConfig ==
    Blank \in ConfigType /\ [Blank EXCEPT !.building = TRUE] \in ConfigType
BY DEF Blank, ConfigType

LEMMA DocumentOperators ==
    ASSUME Typed, NEW config \in ConfigType
    PROVE  /\ getValue(config) \in DocType
           /\ updateServerIDs(config) \in DocType \cup {NoDocument}
           /\ updateStatusWidget(config) \in DocType \cup {NoDocument}
<1>1. doc \in DocType \cup {NoDocument}
      BY TypedState
<1>2. getValue(config) \in DocType
      BY DEF getValue, ConfigType, DocType
<1>3. doc # NoDocument =>
         /\ [doc EXCEPT !.servers = config.servers] \in DocType
         /\ [doc EXCEPT !.pin = config.pin, !.agent = config.agent,
                        !.message = config.message] \in DocType
      BY <1>1 DEF ConfigType, DocType
<1>4. QED
      BY <1>2, <1>3 DEF updateServerIDs, updateStatusWidget

LEMMA Drawings ==
    ASSUME Typed, NEW config \in ConfigType, NEW menu \in SUBSET Server,
           NEW b \in [Server -> SUBSET Button]
    PROVE  /\ Draw(config, menu, b) \in Drawing
           /\ Widget(config, b) \in Drawing
           /\ Menu(config) \subseteq Server
<1>1. known \subseteq Server
      BY TypedState
<1>2. /\ config.pin \in Server \cup {None}
      /\ config.active = None \/ config.active \in Server
      BY DEF ConfigType
<1>3. Menu(config) \subseteq Server
      BY <1>1 DEF Menu
<1>4. \A m \in SUBSET Server : Draw(config, m, b) \in Drawing
      BY <1>2 DEF Draw, Drawing
<1>5. QED
      BY <1>3, <1>4 DEF Widget

LEMMA EditTyped ==
    ASSUME Typed, NEW r \in ConfigRef, NEW config \in ConfigType,
           NEW menu \in SUBSET Server, NEW b \in [Server -> SUBSET Button],
           Edit(r, config, menu, b)
    PROVE  DiscordOK' /\ incident' \subseteq Incident
<1> DEFINE EditType == [message : Message, draws : Drawing, last : BOOLEAN]
           new == [message |-> config.message, draws |-> Draw(config, menu, b), last |-> TRUE]
           Older(e) == [e EXCEPT !.last = @ /\ e.message # config.message]
<1>1. config.message \in Message \cup {None}
      BY DEF ConfigType
<1>2. Draw(config, menu, b) \in Drawing
      BY Drawings
<1>3. /\ edits \subseteq EditType
      /\ shown \in [Message -> Drawing \cup {None}] /\ behind \subseteq Message
      BY TypedState
<1>4. \A e \in edits : Older(e) \in EditType
      BY <1>3
<1>5. config.message # None => new \in EditType
      BY <1>1, <1>2
<1>6. edits' \subseteq EditType
      <2>1. edits' = IF config.message = None THEN edits
                     ELSE {Older(e) : e \in edits} \cup {new}
            BY DEF Edit, updateServerStatusWidget
      <2> HIDE DEF EditType, new, Older
      <2>2. QED
            BY <1>3, <1>4, <1>5, <2>1
<1>7. shown' = shown /\ behind' \subseteq behind
      BY DEF Edit, updateServerStatusWidget
<1>8. incident' \subseteq Incident
      BY TypedState DEF Edit, Note, Detached, Incident
<1>9. QED
      BY <1>3, <1>6, <1>7, <1>8

\* The frame of a handler that goes on with what it has, or ends.
LEMMA GotoTyped ==
    ASSUME Typed, NEW h \in Handler, NEW label \in {"save", "unpin", "delete", "push"},
           pc[h] \notin {"idle", "find"}, Goto(h, label), UNCHANGED <<op, cfg>>,
           \/ label = "save" /\ op[h].kind = "addServer"
           \/ label \in {"unpin", "delete"} /\ op[h].kind = "removeServers"
           \/ label = "push" /\ op[h].kind = "addButton"
    PROVE  /\ pc' \in [Handler -> {"idle", "find", "found", "save", "unpin", "delete", "push"}]
           /\ FrameOK'
BY TypedState DEF Goto, Typed, FrameOK

LEMMA FinishTyped ==
    ASSUME Typed, NEW h \in Handler, Finish(h)
    PROVE  /\ pc' \in [Handler -> {"idle", "find", "found", "save", "unpin", "delete", "push"}]
           /\ op' \in [Handler -> Request \cup {NoRequest}]
           /\ cfg' \in [Handler -> ConfigRef \cup {None}]
           /\ gone' \in [Handler -> SUBSET Server]
           /\ FrameOK'
BY TypedState DEF Finish, Goto, Typed, FrameOK

LEMMA FailTyped ==
    ASSUME Typed, NEW h \in Handler, Fail(h)
    PROVE  /\ pc' \in [Handler -> {"idle", "find", "found", "save", "unpin", "delete", "push"}]
           /\ op' \in [Handler -> Request \cup {NoRequest}]
           /\ cfg' \in [Handler -> ConfigRef \cup {None}]
           /\ gone' \in [Handler -> SUBSET Server]
           /\ FrameOK'
           /\ DiscordOK' /\ incident' \subseteq Incident
BY FinishTyped, TypedState DEF Fail, Note, Incident

LEMMA InitTyped == Init => Typed
<1> SUFFICES ASSUME Init PROVE Typed
    OBVIOUS
<1>1. heap \in [ConfigRef -> ConfigType]
      BY BlankConfig DEF Init
<1>2. docs = [s \in {} |-> {}] /\ DOMAIN docs = {}
      BY DEF Init
<1>3. FrameOK
      BY DEF Init, FrameOK
<1>4. QED
      BY <1>1, <1>2, <1>3 DEF Init, Typed, TypeOK, ConfigType, DocType

LEMMA SubmitTyped ==
    ASSUME Typed, NEW h \in Handler, NEW q \in Request, Submit(h, q)
    PROVE  Typed'
<1>1. /\ pc' \in [Handler -> {"idle", "find", "found", "save", "unpin", "delete", "push"}]
      /\ op' \in [Handler -> Request \cup {NoRequest}]
      /\ FrameOK'
      BY TypedState DEF Submit, Goto, Typed, FrameOK
<1>2. QED
      BY <1>1 DEF Submit, memoryVars, databaseVars, Typed, TypeOK

LEMMA FindTyped ==
    ASSUME Typed, NEW h \in Handler, Find(h)
    PROVE  Typed'
<1>1. CASE cache = None
      BY <1>1, FinishTyped DEF Find, memoryVars, databaseVars, Typed, TypeOK
<1>2. CASE cache # None
      <2>1. /\ pc' \in [Handler -> {"idle", "find", "found", "save", "unpin", "delete", "push"}]
            /\ cfg' \in [Handler -> ConfigRef \cup {None}]
            /\ FrameOK'
            BY <1>2, TypedState DEF Find, Goto, Typed, FrameOK
      <2>2. QED
            BY <1>2, <2>1 DEF Find, memoryVars, databaseVars, Typed, TypeOK
<1>3. QED
      BY <1>1, <1>2

LEMMA EndTyped ==
    ASSUME Typed, NEW h \in Handler, End(h)
    PROVE  Typed'
BY FinishTyped DEF End, memoryVars, databaseVars, Typed, TypeOK

\* A handler at work on a configuration: what it has there.
LEMMA AtTyped ==
    ASSUME Typed, NEW h \in Handler, pc[h] \notin {"idle", "find"}
    PROVE  /\ cfg[h] \in ConfigRef /\ heap[cfg[h]] \in ConfigType
           /\ op[h] \in Request \cup {NoRequest} /\ gone[h] \in SUBSET Server
BY TypedState DEF Typed, FrameOK

LEMMA AddServerTyped ==
    ASSUME Typed, NEW h \in Handler, AddServer(h)
    PROVE  Typed'
<1> DEFINE r == cfg[h]
           s == op[h].server
           config == [heap[r] EXCEPT !.servers = @ \cup {s}]
<1>1. /\ pc[h] = "found" /\ op[h].kind = "addServer"
      /\ r \in ConfigRef /\ heap[r] \in ConfigType /\ s \in Server
      BY AtTyped, RequestFields DEF AddServer, At
<1>2. config \in ConfigType
      <2> HIDE DEF r, s
      <2>1. QED
            BY <1>1, ConfigOperators
<1>3. /\ known' = known \cup {s} /\ heap' = [heap EXCEPT ![r] = config]
      /\ used' = used \cup {s}
      /\ UNCHANGED <<cache, buttons, docs, removed>>
      /\ \/ /\ doc' = updateServerIDs(config) /\ Goto(h, "save") /\ Note(Detached(r))
            /\ UNCHANGED <<frameVars, discordVars>>
         \/ Fail(h) /\ UNCHANGED doc
      BY DEF AddServer
<1> HIDE DEF r, s, config
<1>4. /\ known' \subseteq Server /\ heap' \in [ConfigRef -> ConfigType]
      /\ used' \subseteq Server \cup Button \cup Message \cup Config
      BY <1>1, <1>2, <1>3, TypedState
<1>5. CASE Fail(h) /\ UNCHANGED doc
      BY <1>3, <1>4, <1>5, FailTyped DEF Typed, TypeOK, ConfigType
<1>6. CASE /\ doc' = updateServerIDs(config) /\ Goto(h, "save") /\ Note(Detached(r))
           /\ UNCHANGED <<frameVars, discordVars>>
      <2>1. /\ pc' \in [Handler -> {"idle", "find", "found", "save", "unpin", "delete", "push"}]
            /\ FrameOK'
            BY <1>1, <1>6, GotoTyped DEF frameVars
      <2>2. doc' \in DocType \cup {NoDocument} /\ incident' \subseteq Incident
            BY <1>2, <1>6, DocumentOperators, TypedState DEF Note, Detached, Incident
      <2>3. QED
            BY <1>3, <1>4, <1>6, <2>1, <2>2 DEF frameVars, Typed, TypeOK, ConfigType, DocType
<1>7. QED
      BY <1>3, <1>5, <1>6

LEMMA SaveServerTyped ==
    ASSUME Typed, NEW h \in Handler, SaveServer(h)
    PROVE  Typed'
<1> DEFINE r == cfg[h]
           s == op[h].server
<1>1. /\ pc[h] = "save" /\ op[h].kind = "addServer"
      /\ r \in ConfigRef /\ heap[r] \in ConfigType /\ s \in Server
      BY AtTyped, RequestFields DEF SaveServer, Typed, FrameOK
<1>2. CASE Fail(h) /\ UNCHANGED docs
      BY <1>2, FailTyped DEF SaveServer, memoryVars, Typed, TypeOK
<1>3. CASE /\ docs' = [t \in DOMAIN docs \cup {s} |-> IF t = s THEN {} ELSE docs[t]]
           /\ Edit(r, heap[r], Menu(heap[r]), buttons)
           /\ Finish(h)
      <2>1. DOMAIN docs' \subseteq Server /\ docs' \in [DOMAIN docs' -> SUBSET Button]
            BY <1>1, <1>3, TypedState
      <2>2. DiscordOK' /\ incident' \subseteq Incident
            BY <1>1, <1>3, EditTyped, Drawings, TypedState
      <2>3. QED
            BY <1>3, <2>1, <2>2, FinishTyped DEF SaveServer, memoryVars, Typed, TypeOK
<1>4. QED
      BY <1>2, <1>3 DEF SaveServer

LEMMA RemoveServersTyped ==
    ASSUME Typed, NEW h \in Handler, RemoveServers(h)
    PROVE  Typed'
<1> DEFINE r == cfg[h]
           listed == op[h].servers \cap heap[r].servers
           config == Unlisted(heap[r], listed)
<1>1. /\ pc[h] = "found" /\ op[h].kind = "removeServers"
      /\ r \in ConfigRef /\ heap[r] \in ConfigType /\ listed \in SUBSET Server
      BY AtTyped, RequestFields DEF RemoveServers, At
<1>2. config \in ConfigType
      <2> HIDE DEF r, listed
      <2>1. QED
            BY <1>1, ConfigOperators
<1>3. /\ heap' = [heap EXCEPT ![r] = config]
      /\ removed' = removed \cup listed /\ UNCHANGED <<cache, known, buttons, docs, used>>
      /\ \/ /\ doc' = updateServerIDs(config)
            /\ gone' = [gone EXCEPT ![h] = listed]
            /\ Goto(h, "unpin") /\ Note(Detached(r))
            /\ UNCHANGED <<op, cfg, discordVars>>
         \/ Fail(h) /\ UNCHANGED doc
      BY DEF RemoveServers
<1> HIDE DEF r, listed, config
<1>4. heap' \in [ConfigRef -> ConfigType] /\ removed' \subseteq Server \cup Button
      BY <1>1, <1>2, <1>3, TypedState
<1>5. CASE Fail(h) /\ UNCHANGED doc
      BY <1>3, <1>4, <1>5, FailTyped DEF Typed, TypeOK, ConfigType
<1>6. CASE /\ doc' = updateServerIDs(config)
           /\ gone' = [gone EXCEPT ![h] = listed]
           /\ Goto(h, "unpin") /\ Note(Detached(r))
           /\ UNCHANGED <<op, cfg, discordVars>>
      <2>1. /\ pc' \in [Handler -> {"idle", "find", "found", "save", "unpin", "delete", "push"}]
            /\ FrameOK'
            BY <1>1, <1>6, GotoTyped
      <2>2. gone' \in [Handler -> SUBSET Server]
            BY <1>1, <1>6, TypedState
      <2>3. doc' \in DocType \cup {NoDocument} /\ incident' \subseteq Incident
            BY <1>2, <1>6, DocumentOperators, TypedState DEF Note, Detached, Incident
      <2>4. QED
            BY <1>3, <1>4, <1>6, <2>1, <2>2, <2>3 DEF Typed, TypeOK, ConfigType, DocType
<1>7. QED
      BY <1>3, <1>5, <1>6

LEMMA UnpinTyped ==
    ASSUME Typed, NEW h \in Handler, Unpin(h)
    PROVE  Typed'
<1> DEFINE r == cfg[h]
           config == Unpinned(heap[r], gone[h])
<1>1. /\ pc[h] = "unpin" /\ op[h].kind = "removeServers"
      /\ r \in ConfigRef /\ heap[r] \in ConfigType /\ gone[h] \in SUBSET Server
      BY AtTyped DEF Unpin, Typed, FrameOK
<1>2. config \in ConfigType
      <2> HIDE DEF r
      <2>1. QED
            BY <1>1, ConfigOperators
<1>3. /\ heap' = [heap EXCEPT ![r] = config]
      /\ UNCHANGED <<cache, known, buttons, docs, idVars>>
      /\ \/ /\ doc' = IF config = heap[r] THEN doc ELSE updateStatusWidget(config)
            /\ Goto(h, "delete")
            /\ Note(Detached(r) \cup IF config # heap[r] /\ config.building /\ config.agent
                                     THEN {"unfinished"} ELSE {})
            /\ UNCHANGED <<frameVars, discordVars>>
         \/ Fail(h) /\ UNCHANGED doc
      BY DEF Unpin
<1> HIDE DEF r, config
<1>4. heap' \in [ConfigRef -> ConfigType]
      BY <1>1, <1>2, <1>3, TypedState
<1>5. CASE Fail(h) /\ UNCHANGED doc
      BY <1>3, <1>4, <1>5, FailTyped DEF Typed, TypeOK, ConfigType
<1>6. CASE /\ doc' = IF config = heap[r] THEN doc ELSE updateStatusWidget(config)
           /\ Goto(h, "delete")
           /\ Note(Detached(r) \cup IF config # heap[r] /\ config.building /\ config.agent
                                    THEN {"unfinished"} ELSE {})
           /\ UNCHANGED <<frameVars, discordVars>>
      <2>1. /\ pc' \in [Handler -> {"idle", "find", "found", "save", "unpin", "delete", "push"}]
            /\ FrameOK'
            BY <1>1, <1>6, GotoTyped DEF frameVars
      <2>2. doc' \in DocType \cup {NoDocument} /\ incident' \subseteq Incident
            BY <1>2, <1>6, DocumentOperators, TypedState DEF Note, Detached, Incident
      <2>3. QED
            BY <1>3, <1>4, <1>6, <2>1, <2>2 DEF frameVars, Typed, TypeOK, ConfigType, DocType
<1>7. QED
      BY <1>3, <1>5, <1>6

LEMMA DeleteServersTyped ==
    ASSUME Typed, NEW h \in Handler, DeleteServers(h)
    PROVE  Typed'
<1> DEFINE r == cfg[h]
           left == known \ gone[h]
<1>1. /\ pc[h] = "delete" /\ r \in ConfigRef /\ heap[r] \in ConfigType
      /\ heap[r].servers \cap left \in SUBSET Server
      BY AtTyped, TypedState DEF DeleteServers, ConfigType
<1>2. CASE Fail(h) /\ UNCHANGED <<docs, known>>
      BY <1>2, FailTyped DEF DeleteServers, Typed, TypeOK
<1>3. CASE /\ docs' = [s \in DOMAIN docs \ gone[h] |-> docs[s]]
           /\ known' = left
           /\ Edit(r, heap[r], heap[r].servers \cap left, buttons)
           /\ Finish(h)
      <2>1. DOMAIN docs' \subseteq Server /\ docs' \in [DOMAIN docs' -> SUBSET Button]
            BY <1>3, TypedState
      <2>2. DiscordOK' /\ incident' \subseteq Incident
            BY <1>1, <1>3, EditTyped, TypedState
      <2>3. known' \subseteq Server
            BY <1>3, TypedState
      <2>4. QED
            BY <1>3, <2>1, <2>2, <2>3, FinishTyped DEF DeleteServers, Typed, TypeOK
<1>4. QED
      BY <1>2, <1>3 DEF DeleteServers

LEMMA PinTyped ==
    ASSUME Typed, NEW h \in Handler, Pin(h)
    PROVE  Typed'
<1> DEFINE r == cfg[h]
           s == op[h].server
           config == [heap[r] EXCEPT !.pin = s, !.active = s]
<1>1. /\ pc[h] = "found" /\ r \in ConfigRef /\ heap[r] \in ConfigType /\ s \in Server
      BY AtTyped, RequestFields DEF Pin, At
<1>2. config \in ConfigType
      <2> HIDE DEF r, s
      <2>1. QED
            BY <1>1, ConfigOperators
<1>3. /\ heap' = [heap EXCEPT ![r] = config]
      /\ UNCHANGED <<cache, known, buttons, docs, idVars>>
      /\ \/ /\ doc' = updateStatusWidget(config)
            /\ Edit(r, config, Menu(config), buttons)
            /\ Finish(h)
         \/ Fail(h) /\ UNCHANGED doc
      BY DEF Pin
<1> HIDE DEF r, s, config
<1>4. heap' \in [ConfigRef -> ConfigType]
      BY <1>1, <1>2, <1>3, TypedState
<1>5. CASE Fail(h) /\ UNCHANGED doc
      BY <1>3, <1>4, <1>5, FailTyped DEF Typed, TypeOK, ConfigType
<1>6. CASE /\ doc' = updateStatusWidget(config)
           /\ Edit(r, config, Menu(config), buttons)
           /\ Finish(h)
      <2>1. doc' \in DocType \cup {NoDocument}
            BY <1>2, <1>6, DocumentOperators
      <2>2. DiscordOK' /\ incident' \subseteq Incident
            BY <1>1, <1>2, <1>6, EditTyped, Drawings, TypedState
      <2>3. QED
            BY <1>3, <1>4, <1>6, <2>1, <2>2, FinishTyped DEF Typed, TypeOK, ConfigType, DocType
<1>7. QED
      BY <1>3, <1>5, <1>6

LEMMA ChangeButtonsTyped ==
    ASSUME Typed, NEW h \in Handler, NEW s \in Server, NEW B \in SUBSET Button,
           pc[h] \notin {"idle", "find"}, used' = used, removed' \subseteq Server \cup Button,
           ChangeButtons(h, s, B)
    PROVE  Typed'
<1> DEFINE r == cfg[h]
           after == [buttons EXCEPT ![s] = B]
<1>1. r \in ConfigRef /\ heap[r] \in ConfigType
      BY AtTyped
<1>2. /\ buttons' = after
      /\ UNCHANGED <<heap, cache, known, doc>>
      /\ \/ /\ docs' = updateCustomButtons(s, B)
            /\ Edit(r, heap[r], Menu(heap[r]), after)
            /\ Finish(h)
         \/ Fail(h) /\ UNCHANGED docs
      BY DEF ChangeButtons
<1>3. after \in [Server -> SUBSET Button]
      BY TypedState
<1> HIDE DEF r, after
<1>4. CASE Fail(h) /\ UNCHANGED docs
      BY <1>2, <1>3, <1>4, FailTyped DEF Typed, TypeOK
<1>5. CASE /\ docs' = updateCustomButtons(s, B)
           /\ Edit(r, heap[r], Menu(heap[r]), after)
           /\ Finish(h)
      <2>1. DOMAIN docs' \subseteq Server /\ docs' \in [DOMAIN docs' -> SUBSET Button]
            BY <1>5, TypedState DEF updateCustomButtons
      <2>2. DiscordOK' /\ incident' \subseteq Incident
            BY <1>1, <1>3, <1>5, EditTyped, Drawings
      <2>3. QED
            BY <1>2, <1>3, <1>5, <2>1, <2>2, FinishTyped DEF Typed, TypeOK
<1>6. QED
      BY <1>2, <1>4, <1>5

LEMMA ButtonsTyped ==
    ASSUME Typed, NEW h \in Handler, AddButton(h) \/ PushButton(h) \/ RemoveButtons(h)
    PROVE  Typed'
<1>1. CASE AddButton(h)
      <2>1. /\ pc[h] = "found" /\ op[h].kind = "addButton" /\ op[h].button \in Button
            BY <1>1, AtTyped, RequestFields DEF AddButton, At
      <2>2. /\ pc' \in [Handler -> {"idle", "find", "found", "save", "unpin", "delete", "push"}]
            /\ FrameOK'
            BY <1>1, <2>1, GotoTyped DEF AddButton, frameVars
      <2>3. /\ used' \subseteq Server \cup Button \cup Message \cup Config
            /\ incident' \subseteq Incident
            BY <1>1, <2>1, TypedState DEF AddButton, Note, Detached, Incident
      <2>4. QED
            BY <1>1, <2>2, <2>3
            DEF AddButton, frameVars, memoryVars, databaseVars, Typed, TypeOK
<1>2. CASE PushButton(h)
      <2>1. /\ pc[h] = "push" /\ op[h].server \in Server /\ op[h].button \in Button
            BY <1>2, AtTyped, RequestFields DEF PushButton, Typed, FrameOK
      <2>2. buttons[op[h].server] \cup {op[h].button} \in SUBSET Button
            BY <2>1, TypedState
      <2>3. QED
            BY <1>2, <2>1, <2>2, ChangeButtonsTyped, TypedState DEF PushButton
<1>3. CASE RemoveButtons(h)
      <2>1. /\ pc[h] = "found" /\ op[h].server \in Server
            /\ removed' \subseteq Server \cup Button /\ used' = used
            BY <1>3, AtTyped, RequestFields, TypedState DEF RemoveButtons, At
      <2>2. buttons[op[h].server] \ op[h].buttons \in SUBSET Button
            BY <2>1, TypedState
      <2>3. QED
            BY <1>3, <2>1, <2>2, ChangeButtonsTyped DEF RemoveButtons
<1>4. QED
      BY <1>1, <1>2, <1>3

LEMMA CreateTyped ==
    ASSUME Typed, NEW r \in Config, Create(r)
    PROVE  Typed'
<1>1. /\ r \in ConfigRef /\ heap' = [heap EXCEPT ![r] = [Blank EXCEPT !.building = TRUE]]
      BY DEF Create, ConfigRef
<1>2. heap' \in [ConfigRef -> ConfigType] /\ heap'[r] \in ConfigType
      BY <1>1, BlankConfig, TypedState
<1>3. doc' \in DocType /\ incident' \subseteq Incident
      BY <1>2, DocumentOperators, TypedState DEF Create, Note, Incident
<1>4. used' \subseteq Server \cup Button \cup Message \cup Config
      BY TypedState DEF Create
<1>5. QED
      BY <1>1, <1>2, <1>3, <1>4
      DEF Create, handlerVars, frameVars, Typed, TypeOK, FrameOK, ConfigType, DocType

\* The steps of a build, and of a deletion: only the object the guild has changes,
\* and its servers, its pin and the pinned object do not.
Building ==
    /\ cache # None
    /\ \E draft \in Drawing \cup {None}, building, agent \in BOOLEAN,
          message \in Message \cup {None} :
          heap' = [heap EXCEPT ![cache] = [@ EXCEPT !.draft = draft, !.building = building,
                                                    !.agent = agent, !.message = message]]
    /\ doc' \in {doc, updateStatusWidget(heap'[cache])}
    /\ UNCHANGED <<handlerVars, cache, known, buttons, docs, edits, behind, removed, incident>>
    /\ \/ UNCHANGED <<shown, used>>
       \/ \E m \in Message \ used : /\ used' = used \cup {m}
                                    /\ shown' = [shown EXCEPT ![m] = heap[cache].draft]

LEMMA BuildSteps ==
    ASSUME Typed, Rebuild \/ Draft \/ BuildFails \/ \E m \in Message : Publish(m)
    PROVE  Building
<1>1. CASE Rebuild
      <2>1. /\ cache # None /\ cache \in ConfigRef /\ heap[cache] \in ConfigType
            BY <1>1, TypedState DEF Rebuild
      <2>2. heap' = [heap EXCEPT ![cache] = [@ EXCEPT !.draft = None, !.building = TRUE,
                                                      !.agent = FALSE, !.message = None]]
            BY <1>1, <2>1, TypedState DEF Rebuild, ConfigType
      <2>3. QED
            BY <1>1, <2>1, <2>2 DEF Rebuild, Building
<1>2. CASE Draft
      <2>1. /\ cache # None /\ cache \in ConfigRef /\ heap[cache] \in ConfigType
            BY <1>2, TypedState DEF Draft
      <2>2. Widget(heap[cache], buttons) \in Drawing
            BY <2>1, Drawings, TypedState
      <2>3. heap' = [heap EXCEPT ![cache] = [@ EXCEPT !.draft = Widget(heap[cache], buttons),
                        !.building = heap[cache].building, !.agent = TRUE,
                        !.message = heap[cache].message]]
            BY <1>2, <2>1, TypedState DEF Draft, ConfigType
      <2>4. heap[cache].building \in BOOLEAN /\ heap[cache].message \in Message \cup {None}
            BY <2>1 DEF ConfigType
      <2>5. UNCHANGED <<handlerVars, cache, known, buttons, databaseVars, discordVars, idVars,
                        incident>>
            BY <1>2 DEF Draft
      <2>6. QED
            BY <2>1, <2>2, <2>3, <2>4, <2>5 DEF Building, databaseVars
<1>3. ASSUME NEW m \in Message, Publish(m) PROVE Building
      <2>1. /\ cache # None /\ cache \in ConfigRef /\ heap[cache] \in ConfigType
            BY <1>3, TypedState DEF Publish
      <2>2. [heap[cache] EXCEPT !.building = FALSE, !.draft = None, !.message = m]
              = [heap[cache] EXCEPT !.draft = None, !.building = FALSE,
                                    !.agent = heap[cache].agent, !.message = m]
            BY <2>1 DEF ConfigType
      <2>3. heap' = [heap EXCEPT ![cache] = [@ EXCEPT !.draft = None, !.building = FALSE,
                        !.agent = heap[cache].agent, !.message = m]]
            BY <1>3, <2>1, <2>2, TypedState DEF Publish
      <2>4. heap[cache].agent \in BOOLEAN
            BY <2>1 DEF ConfigType
      <2>5. /\ m \in Message \ used /\ doc' = updateStatusWidget(heap'[cache])
            /\ used' = used \cup {m} /\ shown' = [shown EXCEPT ![m] = heap[cache].draft]
            /\ UNCHANGED <<handlerVars, cache, known, buttons, docs, edits, behind, removed,
                           incident>>
            BY <1>3 DEF Publish
      <2>6. QED
            BY <2>1, <2>3, <2>4, <2>5 DEF Building
<1>4. CASE BuildFails
      <2>1. /\ cache # None /\ cache \in ConfigRef /\ heap[cache] \in ConfigType
            BY <1>4, TypedState DEF BuildFails
      <2>2. heap' = [heap EXCEPT ![cache] = [@ EXCEPT !.draft = None, !.building = FALSE,
                        !.agent = FALSE, !.message = heap[cache].message]]
            BY <1>4, <2>1, TypedState DEF BuildFails, ConfigType
      <2>3. heap[cache].message \in Message \cup {None}
            BY <2>1 DEF ConfigType
      <2>4. QED
            BY <1>4, <2>1, <2>2, <2>3 DEF BuildFails, Building, databaseVars
<1>5. QED
      BY <1>1, <1>2, <1>3, <1>4

LEMMA BuildingTyped ==
    ASSUME Typed, Building
    PROVE  /\ Typed'
           /\ cache \in ConfigRef
           /\ \A r \in ConfigRef : /\ heap'[r].servers = heap[r].servers
                                   /\ heap'[r].pin = heap[r].pin
                                   /\ heap'[r].active = heap[r].active
<1>1. cache \in ConfigRef /\ heap[cache] \in ConfigType /\ heap[cache].draft \in Drawing \cup {None}
      BY TypedState DEF Building, ConfigType
<1>2. /\ heap' \in [ConfigRef -> ConfigType]
      /\ \A r \in ConfigRef : /\ heap'[r].servers = heap[r].servers
                              /\ heap'[r].pin = heap[r].pin
                              /\ heap'[r].active = heap[r].active
      <2>1. PICK draft \in Drawing \cup {None}, building \in BOOLEAN, agent \in BOOLEAN,
                 message \in Message \cup {None} :
               heap' = [heap EXCEPT ![cache] = [@ EXCEPT !.draft = draft,
                           !.building = building, !.agent = agent, !.message = message]]
            BY DEF Building
      <2> DEFINE config == [heap[cache] EXCEPT !.draft = draft, !.building = building,
                                              !.agent = agent, !.message = message]
      <2>2. /\ config \in ConfigType /\ config.servers = heap[cache].servers
            /\ config.pin = heap[cache].pin /\ config.active = heap[cache].active
            BY <1>1 DEF ConfigType
      <2>3. heap' = [heap EXCEPT ![cache] = config]
            BY <2>1
      <2> HIDE DEF config
      <2>4. QED
            BY <1>1, <2>2, <2>3, TypedState
<1>3. doc' \in DocType \cup {NoDocument}
      BY <1>1, <1>2, DocumentOperators, TypedState DEF Building
<1>4. DiscordOK' /\ used' \subseteq Server \cup Button \cup Message \cup Config
      BY <1>1, TypedState DEF Building
<1>5. Typed'
      BY <1>2, <1>3, <1>4
      DEF Building, handlerVars, frameVars, Typed, TypeOK, FrameOK, ConfigType, DocType
<1>6. QED
      BY <1>1, <1>2, <1>5

LEMMA EraseTyped ==
    ASSUME Typed, Erase
    PROVE  Typed'
BY DEF Erase, handlerVars, frameVars, Typed, TypeOK, FrameOK

\* What Discord does on its own: the memory and the collections stay.
LEMMA DiscordTyped ==
    ASSUME Typed,
           \/ \E m \in Message : Deleted(m)
           \/ \E e \in edits : Apply(e) \/ Refuse(e)
    PROVE  Typed'
<1>1. DiscordOK
      BY TypedState
<1>2. /\ UNCHANGED <<handlerVars, memoryVars, databaseVars, idVars, incident>>
      /\ DiscordOK'
      BY <1>1 DEF Deleted, Apply, Refuse
<1>3. QED
      BY <1>2 DEF handlerVars, frameVars, memoryVars, databaseVars, Typed, TypeOK, FrameOK

LEMMA RestartTyped ==
    ASSUME Typed, Restart
    PROVE  Typed'
<1>1. Boot \in ConfigRef
      BY DEF ConfigRef
<1>2. ASSUME doc # NoDocument
      PROVE  [servers |-> doc.servers, pin |-> doc.pin, active |-> LoadedActive(doc.pin),
              building |-> FALSE, draft |-> None, agent |-> doc.agent,
              message |-> doc.message] \in ConfigType
      BY <1>2, TypedState DEF ConfigType, DocType, LoadedActive
<1>3. heap' \in [ConfigRef -> ConfigType]
      BY <1>1, <1>2, BlankConfig DEF Restart
<1>4. /\ known' \subseteq Server /\ buttons' \in [Server -> SUBSET Button]
      /\ incident' \subseteq Incident /\ cache' \in ConfigRef \cup {None}
      BY <1>1, TypedState DEF Restart, Note, Incident
<1>5. FrameOK'
      BY DEF Restart, FrameOK
<1>6. QED
      BY <1>3, <1>4, <1>5 DEF Restart, databaseVars, Typed, TypeOK, ConfigType

LEMMA NextTyped ==
    ASSUME Typed, [Next]_vars
    PROVE  Typed'
<1>1. ASSUME NEW h \in Handler, Handle(h) PROVE Typed'
      BY <1>1, FindTyped, AddServerTyped, SaveServerTyped, EndTyped, RemoveServersTyped,
         UnpinTyped, DeleteServersTyped, PinTyped, ButtonsTyped
      DEF Handle, AddServerRefused, PinRefused, ButtonsRefused
<1>2. CASE UNCHANGED vars
      BY <1>2 DEF vars, handlerVars, frameVars, memoryVars, databaseVars, Typed, TypeOK, FrameOK
<1>3. QED
      BY <1>1, <1>2, SubmitTyped, CreateTyped, BuildSteps, BuildingTyped, EraseTyped,
         DiscordTyped, RestartTyped DEF Next

\* Every variable keeps its type.
THEOREM TypeCorrect == Spec => []TypeOK
<1>1. Init => Typed
      BY InitTyped
<1>2. Typed /\ [Next]_vars => Typed'
      BY NextTyped
<1>3. Typed => TypeOK
      BY DEF Typed
<1>4. QED
      BY <1>1, <1>2, <1>3, PTL DEF Spec

\* Steps that only what Discord has, or is yet to get, takes part in.
Elsewhere == UNCHANGED <<handlerVars, memoryVars, databaseVars, idVars, incident>>

LEMMA ElsewhereSteps ==
    ASSUME \/ UNCHANGED vars
           \/ \E m \in Message : Deleted(m)
           \/ \E e \in edits : Apply(e) \/ Refuse(e)
    PROVE  Elsewhere
BY DEF vars, Deleted, Apply, Refuse, Elsewhere

-----------------------------------------------------------------------------
(***************************************************************************)
(* The lists of servers.  Ids are new when they are submitted, so that no  *)
(* server is ever in the lists of two objects, and a server that leaves a  *)
(* list while its documents are removed is in no list at all.              *)
(***************************************************************************)

Saving == {op[h].server : h \in {k \in Handler : pc[k] = "save"}}

Removing(h) == pc[h] \in {"unpin", "delete"}

ListsOK ==
    /\ \A r \in ConfigRef : heap[r].servers \subseteq used
    /\ \A r1, r2 \in ConfigRef : r1 # r2 => heap[r1].servers \cap heap[r2].servers = {}
    /\ doc # NoDocument => doc.servers \subseteq used

IdsNew ==
    /\ \A h \in Handler :
          /\ op[h].kind = "addServer" /\ pc[h] \in {"find", "found"} => op[h].server \notin used
          /\ pc[h] = "save" => op[h].server \in used
    /\ \A h, k \in Handler :
          op[h].kind = "addServer" /\ op[k].kind = "addServer" /\ h # k =>
              op[h].server # op[k].server

GoneOK ==
    \A h \in Handler : Removing(h) =>
        /\ gone[h] \subseteq used
        /\ \A r \in ConfigRef : heap[r].servers \cap gone[h] = {}
        /\ doc # NoDocument => doc.servers \cap gone[h] = {}

Small(S) == IsFiniteSet(S) /\ Cardinality(S) <= MaxServers

SizesOK ==
    /\ \A r \in ConfigRef : Small(heap[r].servers)
    /\ doc # NoDocument => Small(doc.servers)

\* What is listed has a document, or will have one when its handler goes on.
DocumentsOK ==
    incident \cap {"dbError", "interrupted"} = {} =>
        /\ \A r \in ConfigRef : heap[r].servers \subseteq DOMAIN docs \cup Saving
        /\ doc # NoDocument => doc.servers \subseteq DOMAIN docs \cup Saving

\* The process starts again after a database call threw only if one threw.
ReloadedOK == "reloaded" \in incident => "dbError" \in incident

ServersInv == /\ ListsOK /\ IdsNew /\ GoneOK /\ SizesOK /\ DocumentsOK /\ ReloadedOK
              /\ ListedStored

\* Steps that add nothing to a list and forget only servers that were removed.
Neutral ==
    /\ \A r \in ConfigRef : heap'[r].servers \subseteq heap[r].servers
    /\ doc' # NoDocument /\ doc'.servers # {} => doc # NoDocument /\ doc'.servers = doc.servers
    /\ used \subseteq used' /\ used' \cap Server \subseteq used
    /\ \A h \in Handler :
          \/ pc'[h] = "idle" /\ op'[h] = NoRequest
          \/ /\ op'[h] = op[h] /\ gone'[h] = gone[h]
             /\ pc'[h] \in {"find", "found"} => pc[h] \in {"find", "found"}
             /\ pc'[h] \in {"unpin", "delete"} => pc[h] \in {"unpin", "delete"}
             /\ pc'[h] = "save" => pc[h] = "save"
    /\ \A s \in known \ known' : \E h \in Handler : pc[h] = "delete" /\ s \in gone[h]
    /\ cache' \in {cache, None} \/ heap'[cache'].servers = {}
    /\ incident \subseteq incident'
    /\ "reloaded" \in incident' => "reloaded" \in incident
    /\ "dbError" \notin incident' =>
          \A s \in DOMAIN docs \cup Saving :
             \/ s \in DOMAIN docs' \cup Saving'
             \/ \E h \in Handler : pc[h] = "delete" /\ s \in gone[h]

\* A document keeps its list when only its widget is saved.
LEMMA WidgetSaved ==
    ASSUME Typed, NEW config
    PROVE  updateStatusWidget(config) # NoDocument =>
              doc # NoDocument /\ updateStatusWidget(config).servers = doc.servers
<1>1. CASE doc = NoDocument
      BY <1>1 DEF updateStatusWidget
<1>2. CASE doc # NoDocument
      BY <1>2, TypedState DEF updateStatusWidget, DocType
<1>3. QED
      BY <1>1, <1>2

\* Nobody else moves when a handler ends.
LEMMA FinishEffect ==
    ASSUME Typed, NEW h \in Handler, Finish(h)
    PROVE  /\ pc'[h] = "idle" /\ op'[h] = NoRequest /\ gone'[h] = {} /\ cfg'[h] = None
           /\ \A k \in Handler \ {h} : /\ pc'[k] = pc[k] /\ op'[k] = op[k]
                                       /\ gone'[k] = gone[k] /\ cfg'[k] = cfg[k]
BY TypedState DEF Finish, Goto

LEMMA FindNeutral ==
    ASSUME Typed, NEW h \in Handler, Find(h)
    PROVE  Neutral
<1>1. CASE cache = None
      <2>1. Saving' = Saving
            BY <1>1, FinishEffect DEF Find, Saving
      <2>2. QED
            BY <1>1, <2>1, FinishEffect DEF Find, memoryVars, databaseVars, Neutral
<1>2. CASE cache # None
      <2>1. Saving' = Saving
            BY <1>2, TypedState DEF Find, Goto, Saving
      <2>2. QED
            BY <1>2, <2>1, TypedState DEF Find, Goto, memoryVars, databaseVars, Neutral
<1>3. QED
      BY <1>1, <1>2

LEMMA EndNeutral ==
    ASSUME Typed, NEW h \in Handler, pc[h] = "found", End(h)
    PROVE  Neutral
<1>1. Saving' = Saving
      BY FinishEffect DEF End, Saving
<1>2. QED
      BY <1>1, FinishEffect DEF End, memoryVars, databaseVars, Neutral

LEMMA SaveServerNeutral ==
    ASSUME Typed, NEW h \in Handler, SaveServer(h)
    PROVE  Neutral
<1>1. /\ pc[h] = "save" /\ UNCHANGED <<memoryVars, doc, used>>
      BY DEF SaveServer
<1>2. CASE Fail(h) /\ UNCHANGED docs
      BY <1>1, <1>2, FinishEffect DEF Fail, Note, memoryVars, Neutral
<1>3. CASE /\ docs' = [t \in DOMAIN docs \cup {op[h].server} |->
                          IF t = op[h].server THEN {} ELSE docs[t]]
           /\ Edit(cfg[h], heap[cfg[h]], Menu(heap[cfg[h]]), buttons)
           /\ Finish(h)
      <2>1. \A s \in DOMAIN docs \cup Saving : s \in DOMAIN docs' \cup Saving'
            BY <1>1, <1>3, FinishEffect DEF Saving
      <2>2. /\ incident \subseteq incident'
            /\ "reloaded" \in incident' => "reloaded" \in incident
            BY <1>3 DEF Edit, Note, Detached
      <2>3. QED
            BY <1>1, <1>3, <2>1, <2>2, FinishEffect DEF memoryVars, Neutral
<1>4. QED
      BY <1>2, <1>3 DEF SaveServer

LEMMA UnpinNeutral ==
    ASSUME Typed, NEW h \in Handler, Unpin(h)
    PROVE  Neutral
<1> DEFINE r == cfg[h]
           config == Unpinned(heap[r], gone[h])
<1>1. /\ pc[h] = "unpin" /\ r \in ConfigRef /\ heap[r] \in ConfigType
      BY AtTyped DEF Unpin
<1>2. config.servers = heap[r].servers
      BY <1>1 DEF Unpinned, ConfigType
<1>3. /\ heap' = [heap EXCEPT ![r] = config]
      /\ UNCHANGED <<cache, known, buttons, docs, used>>
      /\ \/ /\ doc' = IF config = heap[r] THEN doc ELSE updateStatusWidget(config)
            /\ Goto(h, "delete")
            /\ Note(Detached(r) \cup IF config # heap[r] /\ config.building /\ config.agent
                                     THEN {"unfinished"} ELSE {})
            /\ UNCHANGED <<frameVars, discordVars>>
         \/ Fail(h) /\ UNCHANGED doc
      BY DEF Unpin
<1> HIDE DEF r, config
<1>4. \A q \in ConfigRef : heap'[q].servers = heap[q].servers
      BY <1>1, <1>2, <1>3, TypedState
<1>5. doc' # NoDocument => doc # NoDocument /\ doc'.servers = doc.servers
      BY <1>3, WidgetSaved
<1>6. CASE Fail(h) /\ UNCHANGED doc
      BY <1>1, <1>3, <1>4, <1>6, FinishEffect DEF Fail, Note, Neutral
<1>7. CASE /\ doc' = IF config = heap[r] THEN doc ELSE updateStatusWidget(config)
           /\ Goto(h, "delete")
           /\ Note(Detached(r) \cup IF config # heap[r] /\ config.building /\ config.agent
                                    THEN {"unfinished"} ELSE {})
           /\ UNCHANGED <<frameVars, discordVars>>
      <2>1. Saving' = Saving
            BY <1>1, <1>7, TypedState DEF Goto, frameVars, Saving
      <2>2. /\ incident \subseteq incident'
            /\ "reloaded" \in incident' => "reloaded" \in incident
            BY <1>7 DEF Note, Detached
      <2>3. QED
            BY <1>1, <1>3, <1>4, <1>5, <1>7, <2>1, <2>2, TypedState DEF Goto, frameVars, Neutral
<1>8. QED
      BY <1>3, <1>6, <1>7

LEMMA DeleteServersNeutral ==
    ASSUME Typed, NEW h \in Handler, DeleteServers(h)
    PROVE  Neutral
<1>1. /\ pc[h] = "delete" /\ UNCHANGED <<heap, cache, buttons, doc, used>>
      BY DEF DeleteServers
<1>2. CASE Fail(h) /\ UNCHANGED <<docs, known>>
      BY <1>1, <1>2, FinishEffect DEF Fail, Note, Neutral
<1>3. CASE /\ docs' = [s \in DOMAIN docs \ gone[h] |-> docs[s]]
           /\ known' = known \ gone[h]
           /\ Edit(cfg[h], heap[cfg[h]], heap[cfg[h]].servers \cap (known \ gone[h]), buttons)
           /\ Finish(h)
      <2>1. Saving' = Saving
            BY <1>1, <1>3, FinishEffect DEF Saving
      <2>2. DOMAIN docs' = DOMAIN docs \ gone[h]
            BY <1>3
      <2>3. /\ incident \subseteq incident'
            /\ "reloaded" \in incident' => "reloaded" \in incident
            BY <1>3 DEF Edit, Note, Detached
      <2>4. QED
            BY <1>1, <1>3, <2>1, <2>2, <2>3, FinishEffect DEF Neutral
<1>4. QED
      BY <1>2, <1>3 DEF DeleteServers

LEMMA PinNeutral ==
    ASSUME Typed, NEW h \in Handler, Pin(h)
    PROVE  Neutral
<1> DEFINE r == cfg[h]
           s == op[h].server
           config == [heap[r] EXCEPT !.pin = s, !.active = s]
<1>1. /\ pc[h] = "found" /\ r \in ConfigRef /\ heap[r] \in ConfigType
      BY AtTyped DEF Pin, At
<1>2. config.servers = heap[r].servers
      BY <1>1 DEF ConfigType
<1>3. /\ heap' = [heap EXCEPT ![r] = config]
      /\ UNCHANGED <<cache, known, buttons, docs, used>>
      /\ \/ /\ doc' = updateStatusWidget(config)
            /\ Edit(r, config, Menu(config), buttons)
            /\ Finish(h)
         \/ Fail(h) /\ UNCHANGED doc
      BY DEF Pin
<1> HIDE DEF r, s, config
<1>4. \A q \in ConfigRef : heap'[q].servers = heap[q].servers
      BY <1>1, <1>2, <1>3, TypedState
<1>5. doc' # NoDocument => doc # NoDocument /\ doc'.servers = doc.servers
      BY <1>3, WidgetSaved
<1>6. Finish(h)
      BY <1>3 DEF Fail
<1>7. /\ incident \subseteq incident'
      /\ "reloaded" \in incident' => "reloaded" \in incident
      BY <1>3 DEF Edit, Fail, Note, Detached
<1>8. Saving' = Saving
      BY <1>1, <1>6, FinishEffect DEF Saving
<1>9. QED
      BY <1>1, <1>3, <1>4, <1>5, <1>6, <1>7, <1>8, FinishEffect DEF Neutral

LEMMA ButtonsNeutral ==
    ASSUME Typed, NEW h \in Handler, AddButton(h) \/ PushButton(h) \/ RemoveButtons(h)
    PROVE  Neutral
<1>1. CASE AddButton(h)
      <2>1. /\ pc[h] = "found" /\ op[h].kind = "addButton" /\ op[h].button \in Button
            BY <1>1, AtTyped, RequestFields DEF AddButton, At
      <2>2. used \subseteq used' /\ used' \cap Server \subseteq used
            BY <1>1, <2>1, ServerListAssumption DEF AddButton
      <2>3. Saving' = Saving
            BY <1>1, <2>1, TypedState DEF AddButton, Goto, frameVars, Saving
      <2>4. QED
            BY <1>1, <2>1, <2>2, <2>3, TypedState
            DEF AddButton, Goto, Note, Detached, frameVars, memoryVars, databaseVars, Neutral
<1>2. ASSUME NEW s, NEW B, pc[h] \in {"found", "push"}, UNCHANGED used, ChangeButtons(h, s, B)
      PROVE  Neutral
      <2>1. /\ UNCHANGED <<heap, cache, known, doc, used>> /\ Finish(h)
            /\ "dbError" \in incident' \/ docs' = updateCustomButtons(s, B)
            /\ incident \subseteq incident'
            /\ "reloaded" \in incident' => "reloaded" \in incident
            BY <1>2 DEF ChangeButtons, Fail, Edit, Note, Detached
      <2>2. DOMAIN updateCustomButtons(s, B) = DOMAIN docs
            BY DEF updateCustomButtons
      <2>3. Saving' = Saving
            BY <1>2, <2>1, FinishEffect DEF Saving
      <2>4. QED
            BY <1>2, <2>1, <2>2, <2>3, FinishEffect DEF Neutral
<1>3. QED
      BY <1>1, <1>2 DEF PushButton, RemoveButtons, At

LEMMA CreateNeutral ==
    ASSUME Typed, NEW r \in Config, Create(r)
    PROVE  Neutral
<1>1. /\ r \in ConfigRef /\ heap' = [heap EXCEPT ![r] = [Blank EXCEPT !.building = TRUE]]
      BY DEF Create, ConfigRef
<1>2. heap'[r].servers = {} /\ \A q \in ConfigRef \ {r} : heap'[q] = heap[q]
      BY <1>1, TypedState DEF Blank
<1>3. doc'.servers = {}
      BY <1>2 DEF Create, getValue
<1>4. used \subseteq used' /\ used' \cap Server \subseteq used
      BY ServerListAssumption DEF Create
<1>5. Saving' = Saving
      BY DEF Create, handlerVars, frameVars, Saving
<1>6. QED
      BY <1>1, <1>2, <1>3, <1>4, <1>5 DEF Create, handlerVars, frameVars, Note, Neutral

LEMMA BuildingNeutral ==
    ASSUME Typed, Building
    PROVE  Neutral
<1>1. \A r \in ConfigRef : heap'[r].servers = heap[r].servers
      BY BuildingTyped
<1>2. doc' # NoDocument => doc # NoDocument /\ doc'.servers = doc.servers
      BY WidgetSaved DEF Building
<1>3. Saving' = Saving
      BY DEF Building, handlerVars, frameVars, Saving
<1>4. used \subseteq used' /\ used' \cap Server \subseteq used
      BY ServerListAssumption DEF Building
<1>5. /\ cache' = cache /\ known' = known /\ docs' = docs /\ incident' = incident
      /\ UNCHANGED <<pc, op, gone>>
      BY DEF Building, handlerVars, frameVars
<1>6. QED
      BY <1>1, <1>2, <1>3, <1>4, <1>5 DEF Neutral

LEMMA EraseNeutral ==
    ASSUME Typed, Erase
    PROVE  Neutral
<1>1. Saving' = Saving
      BY DEF Erase, handlerVars, frameVars, Saving
<1>2. QED
      BY <1>1 DEF Erase, handlerVars, frameVars, Neutral

LEMMA SmallSubset ==
    ASSUME NEW S, NEW T, Small(T), S \subseteq T
    PROVE  Small(S)
<1>1. IsFiniteSet(S) /\ Cardinality(S) <= Cardinality(T)
      BY FS_Subset DEF Small
<1>2. Cardinality(S) \in Nat /\ Cardinality(T) \in Nat
      BY <1>1, FS_CardinalityType DEF Small
<1>3. QED
      BY <1>1, <1>2, LayoutAssumption DEF Small

LEMMA SmallEmpty == Small({})
BY FS_EmptySet, LayoutAssumption DEF Small

LEMMA InitServers == Init => ServersInv
<1> SUFFICES ASSUME Init PROVE ServersInv
    OBVIOUS
<1>1. /\ \A r \in ConfigRef : heap[r].servers = {}
      /\ doc = NoDocument /\ cache = None /\ incident = {} /\ used = {}
      /\ \A h \in Handler : pc[h] = "idle" /\ op[h].kind = "none"
      BY DEF Init, Blank, NoRequest
<1>2. QED
      BY <1>1, SmallEmpty
      DEF ServersInv, ListsOK, IdsNew, GoneOK, SizesOK, DocumentsOK, ReloadedOK,
          ListedStored, Removing

LEMMA NeutralServers ==
    ASSUME Typed, Typed', ServersInv, Neutral
    PROVE  ServersInv'
<1>1. /\ \A r \in ConfigRef : /\ heap'[r].servers \subseteq heap[r].servers
                              /\ heap[r].servers \subseteq used
                              /\ heap[r].servers \subseteq Server
      /\ used \subseteq used'
      BY TypedState DEF ServersInv, ListsOK, Neutral, ConfigType
<1>2. ListsOK'
      BY <1>1 DEF ServersInv, ListsOK, Neutral
<1>3. IdsNew'
      <2>1. \A h \in Handler : op'[h].kind = "addServer" => op'[h].server \in Server
            <3>1. op' \in [Handler -> Request \cup {NoRequest}]
                  BY DEF Typed, TypeOK
            <3>2. QED
                  BY <3>1, RequestFields
      <2>2. \A h \in Handler : op'[h] = NoRequest => op'[h].kind # "addServer"
            BY DEF NoRequest
      <2>3. \A h \in Handler : /\ pc'[h] = "save" => op'[h].kind = "addServer"
                               /\ pc'[h] = "idle" => pc'[h] \notin {"find", "found", "save"}
            BY DEF Typed, FrameOK
      <2>4. QED
            BY <2>1, <2>2, <2>3 DEF ServersInv, IdsNew, Neutral
<1>4. GoneOK'
      BY <1>1 DEF ServersInv, GoneOK, Neutral, Removing
<1>5. SizesOK'
      BY <1>1, SmallSubset, SmallEmpty DEF ServersInv, SizesOK, Neutral
<1>6. DocumentsOK'
      <2>1. SUFFICES ASSUME incident' \cap {"dbError", "interrupted"} = {}
                     PROVE  /\ \A r \in ConfigRef :
                                  heap'[r].servers \subseteq DOMAIN docs' \cup Saving'
                            /\ doc' # NoDocument => doc'.servers \subseteq DOMAIN docs' \cup Saving'
            BY DEF DocumentsOK
      <2>2. incident \cap {"dbError", "interrupted"} = {}
            BY <2>1 DEF Neutral
      <2>3. ASSUME NEW S, S \subseteq DOMAIN docs \cup Saving,
                   \A h \in Handler : pc[h] = "delete" => S \cap gone[h] = {}
            PROVE  S \subseteq DOMAIN docs' \cup Saving'
            BY <2>1, <2>3 DEF Neutral
      <2>4. \A r \in ConfigRef : heap[r].servers \subseteq DOMAIN docs' \cup Saving'
            BY <2>2, <2>3 DEF ServersInv, DocumentsOK, GoneOK, Removing
      <2>5. doc # NoDocument => doc.servers \subseteq DOMAIN docs' \cup Saving'
            BY <2>2, <2>3 DEF ServersInv, DocumentsOK, GoneOK, Removing
      <2>6. QED
            BY <1>1, <2>4, <2>5 DEF Neutral
<1>7. ReloadedOK'
      BY DEF ServersInv, ReloadedOK, Neutral
<1>8. ListedStored'
      <2>1. SUFFICES ASSUME incident' \cap {"reloaded", "interrupted"} = {}, cache' # None
                     PROVE  heap'[cache'].servers \subseteq known'
            BY DEF ListedStored
      <2>2. CASE heap'[cache'].servers = {}
            BY <2>2
      <2>3. CASE cache' = cache
            <3>1. cache \in ConfigRef /\ heap[cache].servers \subseteq known
                  BY <2>1, <2>3, TypedState DEF ServersInv, ListedStored, Neutral
            <3>2. QED
                  BY <1>1, <2>3, <3>1 DEF ServersInv, GoneOK, Removing, Neutral
      <2>4. QED
            BY <2>1, <2>2, <2>3 DEF Neutral
<1>9. QED
      BY <1>2, <1>3, <1>4, <1>5, <1>6, <1>7, <1>8 DEF ServersInv

LEMMA SubmitServers ==
    ASSUME Typed, ServersInv, NEW h \in Handler, NEW q \in Request, Submit(h, q)
    PROVE  ServersInv'
<1>1. /\ pc[h] = "idle" /\ pc'[h] = "find" /\ op'[h] = q
      /\ \A k \in Handler \ {h} : pc'[k] = pc[k] /\ op'[k] = op[k]
      /\ UNCHANGED <<cfg, gone, memoryVars, databaseVars, discordVars, idVars, incident>>
      BY TypedState DEF Submit, Goto
<1>2. Saving' = Saving
      BY <1>1 DEF Saving
<1>3. IdsNew'
      <2>1. q.kind = "addServer" =>
               /\ q.server \notin used
               /\ \A k \in Handler : op[k].kind = "addServer" => op[k].server # q.server
            BY DEF Submit, Submittable, Taken, Request
      <2>2. QED
            BY <1>1, <2>1 DEF ServersInv, IdsNew
<1>4. QED
      BY <1>1, <1>2, <1>3
      DEF ServersInv, ListsOK, GoneOK, SizesOK, DocumentsOK, ReloadedOK, ListedStored,
          Removing, memoryVars, databaseVars

LEMMA AddServerServers ==
    ASSUME Typed, Typed', ServersInv, NEW h \in Handler, AddServer(h)
    PROVE  ServersInv'
<1> DEFINE r == cfg[h]
           s == op[h].server
           config == [heap[r] EXCEPT !.servers = @ \cup {s}]
<1>1. /\ pc[h] = "found" /\ op[h].kind = "addServer"
      /\ r \in ConfigRef /\ heap[r] \in ConfigType /\ s \in Server
      /\ Cardinality(heap[r].servers) < MaxServers
      BY AtTyped, RequestFields DEF AddServer, At, Room
<1>2. config.servers = heap[r].servers \cup {s}
      BY <1>1 DEF ConfigType
<1>3. /\ known' = known \cup {s} /\ heap' = [heap EXCEPT ![r] = config]
      /\ used' = used \cup {s}
      /\ UNCHANGED <<cache, buttons, docs>>
      /\ \/ /\ doc' = updateServerIDs(config) /\ Goto(h, "save") /\ Note(Detached(r))
            /\ UNCHANGED <<frameVars, discordVars>>
         \/ Fail(h) /\ UNCHANGED doc
      BY DEF AddServer
<1>4. s \notin used
      BY <1>1 DEF ServersInv, IdsNew
<1> HIDE DEF r, s, config
<1>5. /\ heap'[r].servers = heap[r].servers \cup {s}
      /\ \A q \in ConfigRef \ {r} : heap'[q].servers = heap[q].servers
      BY <1>1, <1>2, <1>3, TypedState
<1>6. /\ doc' # NoDocument =>
            doc # NoDocument /\ doc'.servers \in {doc.servers, heap'[r].servers}
      /\ doc' # NoDocument /\ pc'[h] = "save" => doc'.servers = heap'[r].servers
      <2>1. CASE Fail(h) /\ UNCHANGED doc
            BY <2>1, FinishEffect DEF Fail
      <2>2. CASE doc' = updateServerIDs(config)
            BY <1>2, <1>5, <2>2, TypedState DEF updateServerIDs, DocType
      <2>3. QED
            BY <1>3, <2>1, <2>2
<1>7. /\ \A k \in Handler \ {h} : pc'[k] = pc[k] /\ op'[k] = op[k] /\ gone'[k] = gone[k]
      /\ \/ pc'[h] = "idle" /\ op'[h] = NoRequest /\ "dbError" \in incident'
         \/ pc'[h] = "save" /\ op'[h] = op[h]
      /\ incident \subseteq incident'
      /\ "reloaded" \in incident' => "reloaded" \in incident
      <2>1. CASE Fail(h) /\ UNCHANGED doc
            BY <2>1, FinishEffect DEF Fail, Note
      <2>2. CASE Goto(h, "save") /\ Note(Detached(r)) /\ UNCHANGED <<frameVars, discordVars>>
            BY <2>2, TypedState DEF Goto, frameVars, Note, Detached
      <2>3. QED
            BY <1>3, <2>1, <2>2
<1>8. ListsOK'
      BY <1>1, <1>3, <1>4, <1>5, <1>6 DEF ServersInv, ListsOK
<1>9. IdsNew'
      BY <1>1, <1>3, <1>7 DEF ServersInv, IdsNew, NoRequest, s, Typed, FrameOK
<1>10. GoneOK'
      BY <1>1, <1>3, <1>4, <1>5, <1>6, <1>7 DEF ServersInv, GoneOK, Removing
<1>11. SizesOK'
      <2>1. Small(heap[r].servers)
            BY <1>1 DEF ServersInv, SizesOK
      <2>2. Cardinality(heap[r].servers) \in Nat /\ IsFiniteSet(heap[r].servers)
            BY <2>1, FS_CardinalityType DEF Small
      <2>3. /\ IsFiniteSet(heap[r].servers \cup {s})
            /\ Cardinality(heap[r].servers \cup {s}) <= Cardinality(heap[r].servers) + 1
            <3>1. /\ IsFiniteSet(heap[r].servers \cup {s})
                  /\ \/ Cardinality(heap[r].servers \cup {s}) = Cardinality(heap[r].servers)
                     \/ Cardinality(heap[r].servers \cup {s}) = Cardinality(heap[r].servers) + 1
                  BY <2>2, FS_AddElement
            <3>2. QED
                  BY <2>2, <3>1
      <2>4. Cardinality(heap[r].servers \cup {s}) \in Nat
            BY <2>3, FS_CardinalityType
      <2>5. Small(heap'[r].servers)
            BY <1>1, <1>5, <2>2, <2>3, <2>4, LayoutAssumption DEF Small
      <2>6. QED
            BY <1>1, <1>5, <1>6, <2>5 DEF ServersInv, SizesOK
<1>12. DocumentsOK'
      <2>1. SUFFICES ASSUME incident' \cap {"dbError", "interrupted"} = {}
                     PROVE  /\ \A q \in ConfigRef :
                                  heap'[q].servers \subseteq DOMAIN docs' \cup Saving'
                            /\ doc' # NoDocument => doc'.servers \subseteq DOMAIN docs' \cup Saving'
            BY DEF DocumentsOK
      <2>2. pc'[h] = "save" /\ op'[h] = op[h] /\ incident \cap {"dbError", "interrupted"} = {}
            BY <1>7, <2>1
      <2>3. Saving \subseteq Saving' /\ s \in Saving'
            BY <1>1, <1>7, <2>2 DEF Saving, s
      <2>4. \A q \in ConfigRef : heap'[q].servers \subseteq DOMAIN docs' \cup Saving'
            BY <1>1, <1>3, <1>5, <2>2, <2>3 DEF ServersInv, DocumentsOK
      <2>5. QED
            BY <1>1, <1>6, <2>2, <2>4
<1>13. ReloadedOK' /\ ListedStored'
      BY <1>1, <1>3, <1>5, <1>7, TypedState DEF ServersInv, ReloadedOK, ListedStored
<1>14. QED
      BY <1>8, <1>9, <1>10, <1>11, <1>12, <1>13 DEF ServersInv

LEMMA RemoveServersServers ==
    ASSUME Typed, Typed', ServersInv, NEW h \in Handler, RemoveServers(h)
    PROVE  ServersInv'
<1> DEFINE r == cfg[h]
           listed == op[h].servers \cap heap[r].servers
           config == Unlisted(heap[r], listed)
<1>1. /\ pc[h] = "found" /\ r \in ConfigRef /\ heap[r] \in ConfigType
      /\ listed \subseteq heap[r].servers
      BY AtTyped DEF RemoveServers, At
<1>2. config.servers = heap[r].servers \ listed
      BY <1>1 DEF ConfigType, Unlisted
<1>3. /\ heap' = [heap EXCEPT ![r] = config]
      /\ UNCHANGED <<cache, known, buttons, docs, used>>
      /\ \/ /\ doc' = updateServerIDs(config)
            /\ gone' = [gone EXCEPT ![h] = listed]
            /\ Goto(h, "unpin") /\ Note(Detached(r))
            /\ UNCHANGED <<op, cfg, discordVars>>
         \/ Fail(h) /\ UNCHANGED doc
      BY DEF RemoveServers
<1> HIDE DEF r, listed, config
<1>4. /\ heap'[r].servers = heap[r].servers \ listed
      /\ \A q \in ConfigRef \ {r} : heap'[q].servers = heap[q].servers
      BY <1>1, <1>2, <1>3, TypedState
<1>5. CASE Fail(h) /\ UNCHANGED doc
      <2>1. Neutral
            BY <1>1, <1>3, <1>4, <1>5, FinishEffect DEF Fail, Note, Neutral
      <2>2. QED
            BY <2>1, NeutralServers
<1>6. CASE /\ doc' = updateServerIDs(config)
           /\ gone' = [gone EXCEPT ![h] = listed]
           /\ Goto(h, "unpin") /\ Note(Detached(r))
           /\ UNCHANGED <<op, cfg, discordVars>>
      <2>1. /\ pc'[h] = "unpin" /\ gone'[h] = listed
            /\ \A k \in Handler \ {h} : pc'[k] = pc[k] /\ gone'[k] = gone[k]
            /\ incident \subseteq incident'
            /\ "reloaded" \in incident' => "reloaded" \in incident
            BY <1>6, TypedState DEF Goto, Note, Detached
      <2>2. doc' # NoDocument => doc # NoDocument /\ doc'.servers = heap'[r].servers
            BY <1>2, <1>4, <1>6, TypedState DEF updateServerIDs, DocType
      <2>3. Saving' = Saving
            BY <1>1, <1>6, <2>1 DEF Saving
      <2>4. ListsOK'
            BY <1>1, <1>3, <1>4, <2>2 DEF ServersInv, ListsOK
      <2>5. IdsNew'
            BY <1>1, <1>3, <1>6, <2>1 DEF ServersInv, IdsNew
      <2>6. GoneOK'
            <3>1. \A q \in ConfigRef : heap'[q].servers \cap listed = {}
                  BY <1>1, <1>4 DEF ServersInv, ListsOK
            <3>2. listed \subseteq used
                  BY <1>1 DEF ServersInv, ListsOK
            <3>3. QED
                  BY <1>1, <1>3, <1>4, <2>1, <2>2, <3>1, <3>2 DEF ServersInv, GoneOK, Removing
      <2>7. SizesOK'
            BY <1>1, <1>4, <2>2, SmallSubset DEF ServersInv, SizesOK
      <2>8. DocumentsOK'
            BY <1>1, <1>3, <1>4, <2>1, <2>2, <2>3 DEF ServersInv, DocumentsOK
      <2>9. ReloadedOK' /\ ListedStored'
            BY <1>1, <1>3, <1>4, <2>1, TypedState DEF ServersInv, ReloadedOK, ListedStored
      <2>10. QED
            BY <2>4, <2>5, <2>6, <2>7, <2>8, <2>9 DEF ServersInv
<1>7. QED
      BY <1>3, <1>5, <1>6

LEMMA RestartServers ==
    ASSUME Typed, ServersInv, Restart
    PROVE  ServersInv'
<1>1. /\ Boot \in ConfigRef /\ UNCHANGED <<doc, docs, used>> /\ known' = DOMAIN docs
      /\ \A h \in Handler : pc'[h] = "idle" /\ op'[h] = NoRequest
      /\ cache' = IF doc = NoDocument THEN None ELSE Boot
      BY DEF Restart, ConfigRef, databaseVars
<1>2. /\ heap'[Boot].servers = IF doc = NoDocument THEN {} ELSE doc.servers
      /\ \A r \in ConfigRef \ {Boot} : heap'[r].servers = {}
      BY <1>1 DEF Restart, Blank
<1>3. /\ incident \subseteq incident'
      /\ "reloaded" \in incident' <=> "reloaded" \in incident \/ "dbError" \in incident
      /\ "dbError" \in incident' => "dbError" \in incident
      /\ "interrupted" \notin incident' => \A h \in Handler : ~Midway(h)
      BY DEF Restart, Note
<1>4. /\ ListsOK' /\ IdsNew' /\ GoneOK' /\ ReloadedOK'
      BY <1>1, <1>2, <1>3
      DEF ServersInv, ListsOK, IdsNew, GoneOK, ReloadedOK, Removing, NoRequest
<1>5. SizesOK'
      BY <1>1, <1>2, SmallEmpty DEF ServersInv, SizesOK
<1>6. ASSUME incident' \cap {"dbError", "interrupted"} = {}
      PROVE  doc # NoDocument => doc.servers \subseteq DOMAIN docs
      <2>1. Saving = {}
            BY <1>3, <1>6 DEF Saving, Midway
      <2>2. incident \cap {"dbError", "interrupted"} = {}
            BY <1>3, <1>6
      <2>3. QED
            BY <2>1, <2>2 DEF ServersInv, DocumentsOK
<1>7. DocumentsOK'
      BY <1>1, <1>2, <1>6 DEF DocumentsOK
<1>8. ListedStored'
      <2>1. "dbError" \in incident' => "reloaded" \in incident'
            BY <1>3
      <2>2. QED
            BY <1>1, <1>2, <1>6, <2>1 DEF ListedStored
<1>9. QED
      BY <1>4, <1>5, <1>7, <1>8 DEF ServersInv

LEMMA NextServers ==
    ASSUME Typed, ServersInv, [Next]_vars
    PROVE  ServersInv'
<1>1. Typed'
      BY NextTyped
<1>2. CASE Neutral
      BY <1>1, <1>2, NeutralServers
<1>3. ASSUME NEW h \in Handler, Handle(h) PROVE ServersInv'
      BY <1>1, <1>2, <1>3, FindNeutral, EndNeutral, SaveServerNeutral, UnpinNeutral,
         DeleteServersNeutral, PinNeutral, ButtonsNeutral, AddServerServers,
         RemoveServersServers
      DEF Handle, AddServerRefused, PinRefused, ButtonsRefused, At
<1>4. CASE Elsewhere
      <2>1. Saving' = Saving
            BY <1>4 DEF Elsewhere, handlerVars, frameVars, Saving
      <2>2. QED
            BY <1>4, <2>1
            DEF Elsewhere, handlerVars, frameVars, memoryVars, databaseVars, ServersInv, ListsOK,
                IdsNew, GoneOK, SizesOK, DocumentsOK, ReloadedOK, ListedStored, Removing
<1>5. QED
      BY <1>2, <1>3, <1>4, SubmitServers, CreateNeutral, BuildSteps, BuildingNeutral,
         EraseNeutral, RestartServers, ElsewhereSteps DEF Next

\* Whatever the handlers, and however often the process starts again, a guild's
\* list holds servers that are stored.
THEOREM ListedServersStored == Spec => []ListedStored
<1>1. Init => Typed /\ ServersInv
      BY InitTyped, InitServers
<1>2. Typed /\ ServersInv /\ [Next]_vars => (Typed /\ ServersInv)'
      BY NextTyped, NextServers
<1>3. ServersInv => ListedStored
      BY DEF ServersInv
<1>4. QED
      BY <1>1, <1>2, <1>3, PTL DEF Spec

-----------------------------------------------------------------------------
(***************************************************************************)
(* The buttons.  As long as every handler worked on the guild's object, at *)
(* most one is between two steps under its lock, so that the room a        *)
(* handler found for a button is still there when it adds it.              *)
(***************************************************************************)

Few(S) == IsFiniteSet(S) /\ Cardinality(S) <= MaxButtons

LocksOK ==
    /\ \A h, k \in Handler : h # k /\ Midway(h) /\ Midway(k) => cfg[h] # cfg[k]
    /\ "detached" \notin incident => \A h \in Handler : Midway(h) => cfg[h] = cache

ButtonsFew ==
    "detached" \notin incident =>
        /\ \A s \in Server : Few(buttons[s])
        /\ \A s \in DOMAIN docs : Few(docs[s])
        /\ \A h \in Handler : pc[h] = "push" => Cardinality(buttons[op[h].server]) < MaxButtons

ButtonsInv == LocksOK /\ ButtonsFew

\* Steps after which nobody is between two steps who was not, and no server has
\* a button it did not have.
Quiet ==
    /\ \A h \in Handler : Midway(h)' => Midway(h) /\ cfg'[h] = cfg[h] /\ op'[h] = op[h]
    /\ \A h \in Handler : pc'[h] = "push" => pc[h] = "push"
    /\ cache' = cache \/ ~Locked(cache)
    /\ incident \subseteq incident'
    /\ \A s \in Server : buttons'[s] \subseteq buttons[s]
    /\ \A s \in DOMAIN docs' : \/ s \in Server /\ docs'[s] \subseteq buttons[s]
                               \/ s \in DOMAIN docs /\ docs'[s] = docs[s]

LEMMA FewSubset ==
    ASSUME NEW S, NEW T, Few(T), S \subseteq T
    PROVE  Few(S) /\ Cardinality(S) <= Cardinality(T)
<1>1. IsFiniteSet(S) /\ Cardinality(S) <= Cardinality(T)
      BY FS_Subset DEF Few
<1>2. Cardinality(S) \in Nat /\ Cardinality(T) \in Nat
      BY <1>1, FS_CardinalityType DEF Few
<1>3. QED
      BY <1>1, <1>2, LayoutAssumption DEF Few

LEMMA FewEmpty == Few({})
BY FS_EmptySet, LayoutAssumption DEF Few

LEMMA InitButtons == Init => ButtonsInv
<1> SUFFICES ASSUME Init PROVE ButtonsInv
    OBVIOUS
<1>1. /\ \A h \in Handler : pc[h] = "idle"
      /\ \A s \in Server : buttons[s] = {}
      /\ DOMAIN docs = {}
      BY DEF Init
<1>2. QED
      BY <1>1, FewEmpty DEF ButtonsInv, LocksOK, ButtonsFew, Midway

LEMMA QuietButtons ==
    ASSUME Typed, ButtonsInv, Quiet
    PROVE  ButtonsInv'
<1>1. LocksOK'
      <2>1. \A h, k \in Handler : h # k /\ Midway(h)' /\ Midway(k)' => cfg'[h] # cfg'[k]
            BY DEF ButtonsInv, LocksOK, Quiet
      <2>2. ASSUME "detached" \notin incident', NEW h \in Handler, Midway(h)'
            PROVE  cfg'[h] = cache'
            BY <2>2 DEF ButtonsInv, LocksOK, Quiet, Locked
      <2>3. QED
            BY <2>1, <2>2 DEF LocksOK
<1>2. SUFFICES ASSUME "detached" \notin incident'
               PROVE  /\ \A s \in Server : Few(buttons'[s])
                      /\ \A s \in DOMAIN docs' : Few(docs'[s])
                      /\ \A h \in Handler :
                            pc'[h] = "push" => Cardinality(buttons'[op'[h].server]) < MaxButtons
      BY <1>1 DEF ButtonsInv, ButtonsFew
<1>3. /\ \A s \in Server : Few(buttons[s])
      /\ \A s \in DOMAIN docs : Few(docs[s])
      /\ \A h \in Handler : pc[h] = "push" => Cardinality(buttons[op[h].server]) < MaxButtons
      BY <1>2 DEF ButtonsInv, ButtonsFew, Quiet
<1>4. \A s \in Server : /\ Few(buttons'[s])
                        /\ Cardinality(buttons'[s]) <= Cardinality(buttons[s])
      BY <1>3, FewSubset DEF Quiet
<1>5. ASSUME NEW s \in DOMAIN docs' PROVE Few(docs'[s])
      <2>1. CASE s \in DOMAIN docs /\ docs'[s] = docs[s]
            BY <1>3, <2>1
      <2>2. CASE s \in Server /\ docs'[s] \subseteq buttons[s]
            BY <1>3, <2>2, FewSubset
      <2>3. QED
            BY <2>1, <2>2 DEF Quiet
<1>6. ASSUME NEW h \in Handler, pc'[h] = "push"
      PROVE  Cardinality(buttons'[op'[h].server]) < MaxButtons
      <2>1. pc[h] = "push" /\ op'[h] = op[h]
            BY <1>6 DEF Quiet, Midway
      <2>2. op[h].server \in Server
            <3>1. op[h] \in Request \cup {NoRequest} /\ op[h].kind = "addButton"
                  BY <2>1, TypedState DEF Typed, FrameOK
            <3>2. QED
                  BY <3>1, RequestFields
      <2>3. /\ Cardinality(buttons[op[h].server]) \in Nat
            /\ Cardinality(buttons'[op[h].server]) \in Nat
            BY <1>3, <1>4, <2>2, FS_CardinalityType DEF Few
      <2>4. QED
            BY <1>3, <1>4, <2>1, <2>2, <2>3, LayoutAssumption
<1>7. QED
      BY <1>4, <1>5, <1>6

\* A handler that ends, whatever it leaves behind.
LEMMA FinishQuiet ==
    ASSUME Typed, NEW h \in Handler, Finish(h), cache' = cache, incident \subseteq incident',
           \A s \in Server : buttons'[s] \subseteq buttons[s],
           \A s \in DOMAIN docs' : \/ s \in Server /\ docs'[s] \subseteq buttons[s]
                                   \/ s \in DOMAIN docs /\ docs'[s] = docs[s]
    PROVE  Quiet
BY FinishEffect DEF Quiet, Midway

\* A handler that goes from one step under its lock to the next.
LEMMA GoOnQuiet ==
    ASSUME Typed, NEW h \in Handler, Midway(h), NEW label \in {"save", "unpin", "delete"},
           Goto(h, label), incident \subseteq incident',
           UNCHANGED <<op, cfg, cache, buttons, docs>>
    PROVE  Quiet
<1>1. \A k \in Handler : pc'[k] = IF k = h THEN label ELSE pc[k]
      BY TypedState DEF Goto
<1>2. QED
      BY <1>1 DEF Quiet, Midway

LEMMA HandleQuiet ==
    ASSUME Typed, NEW h \in Handler,
           \/ Find(h) \/ SaveServer(h) \/ AddServerRefused(h) \/ Unpin(h) \/ DeleteServers(h)
           \/ Pin(h) \/ PinRefused(h) \/ RemoveButtons(h) \/ ButtonsRefused(h)
    PROVE  Quiet
<1>1. CASE Find(h)
      <2>1. CASE cache = None
            BY <1>1, <2>1, FinishQuiet DEF Find, memoryVars, databaseVars
      <2>2. CASE cache # None
            <3>1. /\ \A k \in Handler : pc'[k] = IF k = h THEN "found" ELSE pc[k]
                  /\ \A k \in Handler \ {h} : cfg'[k] = cfg[k]
                  /\ UNCHANGED <<op, memoryVars, databaseVars, incident>>
                  BY <1>1, <2>2, TypedState DEF Find, Goto
            <3>2. QED
                  BY <3>1 DEF Quiet, Midway, memoryVars, databaseVars
      <2>3. QED
            BY <2>1, <2>2
<1>2. CASE End(h)
      BY <1>2, FinishQuiet DEF End, memoryVars, databaseVars
<1>3. CASE SaveServer(h)
      <2>1. /\ pc[h] = "save" /\ cache' = cache /\ buttons' = buttons /\ op[h].server \in Server
            BY <1>3, AtTyped, RequestFields DEF SaveServer, memoryVars, Typed, FrameOK
      <2>2. CASE Fail(h) /\ UNCHANGED docs
            BY <2>1, <2>2, FinishQuiet DEF Fail, Note
      <2>3. CASE /\ docs' = [t \in DOMAIN docs \cup {op[h].server} |->
                                IF t = op[h].server THEN {} ELSE docs[t]]
                 /\ Edit(cfg[h], heap[cfg[h]], Menu(heap[cfg[h]]), buttons)
                 /\ Finish(h)
            BY <2>1, <2>3, FinishQuiet DEF Edit, Note
      <2>4. QED
            BY <1>3, <2>2, <2>3 DEF SaveServer
<1>4. CASE Unpin(h)
      <2>1. Midway(h) /\ UNCHANGED <<cache, buttons, docs>>
            BY <1>4 DEF Unpin, Midway
      <2>2. CASE Fail(h)
            BY <2>1, <2>2, FinishQuiet DEF Fail, Note
      <2>3. CASE Goto(h, "delete") /\ incident \subseteq incident' /\ UNCHANGED frameVars
            BY <2>1, <2>3, GoOnQuiet DEF frameVars
      <2>4. QED
            BY <1>4, <2>2, <2>3 DEF Unpin, Note
<1>5. CASE DeleteServers(h)
      <2>1. /\ cache' = cache /\ buttons' = buttons /\ Finish(h)
            BY <1>5 DEF DeleteServers, Fail
      <2>2. incident \subseteq incident'
            BY <1>5 DEF DeleteServers, Fail, Edit, Note
      <2>3. \A s \in DOMAIN docs' : s \in DOMAIN docs /\ docs'[s] = docs[s]
            BY <1>5 DEF DeleteServers
      <2>4. QED
            BY <2>1, <2>2, <2>3, FinishQuiet
<1>6. CASE Pin(h)
      <2>1. /\ UNCHANGED <<cache, buttons, docs>> /\ Finish(h) /\ incident \subseteq incident'
            BY <1>6 DEF Pin, Fail, Edit, Note
      <2>2. QED
            BY <2>1, FinishQuiet
<1>7. CASE RemoveButtons(h)
      <2> DEFINE s == op[h].server
                 B == buttons[s] \ op[h].buttons
      <2>1. s \in Server
            BY <1>7, AtTyped, RequestFields DEF RemoveButtons, At
      <2>2. ChangeButtons(h, s, B)
            BY <1>7 DEF RemoveButtons
      <2>3. B \subseteq buttons[s]
            OBVIOUS
      <2> HIDE DEF s, B
      <2>4. /\ buttons' = [buttons EXCEPT ![s] = B] /\ cache' = cache /\ Finish(h)
            /\ docs' \in {docs, updateCustomButtons(s, B)} /\ incident \subseteq incident'
            BY <2>2 DEF ChangeButtons, Fail, Edit, Note
      <2>5. \A t \in DOMAIN docs' : \/ t \in Server /\ docs'[t] \subseteq buttons[t]
                                    \/ t \in DOMAIN docs /\ docs'[t] = docs[t]
            BY <2>1, <2>3, <2>4, TypedState DEF updateCustomButtons
      <2>6. \A t \in Server : buttons'[t] \subseteq buttons[t]
            BY <2>1, <2>3, <2>4, TypedState
      <2>7. QED
            BY <2>4, <2>5, <2>6, FinishQuiet
<1>8. QED
      BY <1>1, <1>2, <1>3, <1>4, <1>5, <1>6, <1>7
      DEF AddServerRefused, PinRefused, ButtonsRefused

\* A handler that found its configuration unlocked takes the lock over a step.
LEMMA EnterButtons ==
    ASSUME Typed, ButtonsInv, NEW h \in Handler, pc[h] = "found", ~Locked(cfg[h]),
           NEW label \in {"save", "unpin", "push"}, Goto(h, label), Note(Detached(cfg[h])),
           UNCHANGED <<op, cfg, cache, buttons, docs>>,
           label = "push" => Cardinality(buttons[op[h].server]) < MaxButtons
    PROVE  ButtonsInv'
<1>1. \A k \in Handler : pc'[k] = IF k = h THEN label ELSE pc[k]
      BY TypedState DEF Goto
<1>2. /\ incident \subseteq incident'
      /\ "detached" \notin incident' => cfg[h] = cache
      BY DEF Note, Detached
<1>3. LocksOK'
      BY <1>1, <1>2 DEF ButtonsInv, LocksOK, Locked, Midway
<1>4. ButtonsFew'
      BY <1>1, <1>2 DEF ButtonsInv, ButtonsFew
<1>5. QED
      BY <1>3, <1>4 DEF ButtonsInv

LEMMA AddServerButtons ==
    ASSUME Typed, ButtonsInv, NEW h \in Handler, AddServer(h)
    PROVE  ButtonsInv'
<1>1. /\ pc[h] = "found" /\ ~Locked(cfg[h]) /\ UNCHANGED <<cache, buttons, docs>>
      /\ \/ Goto(h, "save") /\ Note(Detached(cfg[h])) /\ UNCHANGED frameVars
         \/ Fail(h)
      BY DEF AddServer, At
<1>2. CASE Fail(h)
      BY <1>1, <1>2, FinishQuiet, QuietButtons DEF Fail, Note
<1>3. CASE Goto(h, "save") /\ Note(Detached(cfg[h])) /\ UNCHANGED frameVars
      BY <1>1, <1>3, EnterButtons DEF frameVars
<1>4. QED
      BY <1>1, <1>2, <1>3

LEMMA RemoveServersButtons ==
    ASSUME Typed, ButtonsInv, NEW h \in Handler, RemoveServers(h)
    PROVE  ButtonsInv'
<1>1. /\ pc[h] = "found" /\ ~Locked(cfg[h]) /\ UNCHANGED <<cache, buttons, docs>>
      /\ \/ Goto(h, "unpin") /\ Note(Detached(cfg[h])) /\ UNCHANGED <<op, cfg>>
         \/ Fail(h)
      BY DEF RemoveServers, At
<1>2. CASE Fail(h)
      BY <1>1, <1>2, FinishQuiet, QuietButtons DEF Fail, Note
<1>3. CASE Goto(h, "unpin") /\ Note(Detached(cfg[h])) /\ UNCHANGED <<op, cfg>>
      BY <1>1, <1>3, EnterButtons
<1>4. QED
      BY <1>1, <1>2, <1>3

LEMMA AddButtonButtons ==
    ASSUME Typed, ButtonsInv, NEW h \in Handler, AddButton(h)
    PROVE  ButtonsInv'
<1>1. /\ pc[h] = "found" /\ ~Locked(cfg[h]) /\ UNCHANGED <<op, cfg, cache, buttons, docs>>
      /\ Goto(h, "push") /\ Note(Detached(cfg[h]))
      /\ Cardinality(buttons[op[h].server]) < MaxButtons
      BY DEF AddButton, At, Space, frameVars, memoryVars, databaseVars
<1>2. QED
      BY <1>1, EnterButtons

\* The room that was found is still there: nobody else was about to add a button.
LEMMA PushButtonButtons ==
    ASSUME Typed, ButtonsInv, NEW h \in Handler, PushButton(h)
    PROVE  ButtonsInv'
<1> DEFINE s == op[h].server
           B == buttons[s] \cup {op[h].button}
<1>1. /\ pc[h] = "push" /\ s \in Server
      BY AtTyped, RequestFields DEF PushButton, Typed, FrameOK
<1>2. /\ buttons' = [buttons EXCEPT ![s] = B] /\ cache' = cache /\ Finish(h)
      /\ docs' \in {docs, updateCustomButtons(s, B)} /\ incident \subseteq incident'
      BY DEF PushButton, ChangeButtons, Fail, Edit, Note
<1>3. \A k \in Handler : /\ Midway(k)' => k # h /\ Midway(k) /\ cfg'[k] = cfg[k]
                         /\ pc'[k] = "push" => k # h /\ pc[k] = "push"
      BY <1>2, FinishEffect DEF Midway
<1>4. LocksOK'
      BY <1>2, <1>3 DEF ButtonsInv, LocksOK
<1>5. ASSUME "detached" \notin incident'
      PROVE  /\ \A t \in Server : Few(buttons'[t])
             /\ \A t \in DOMAIN docs' : Few(docs'[t])
             /\ \A k \in Handler : pc'[k] # "push"
      <2>1. /\ "detached" \notin incident
            /\ \A t \in Server : Few(buttons[t])
            /\ \A t \in DOMAIN docs : Few(docs[t])
            /\ Cardinality(buttons[s]) < MaxButtons
            BY <1>1, <1>2, <1>5 DEF ButtonsInv, ButtonsFew
      <2>2. \A k \in Handler : pc'[k] # "push"
            BY <1>1, <1>3, <2>1 DEF ButtonsInv, LocksOK, Midway
      <2>3. Few(B)
            <3>1. IsFiniteSet(buttons[s]) /\ Cardinality(buttons[s]) \in Nat
                  BY <1>1, <2>1, FS_CardinalityType DEF Few
            <3>2. /\ IsFiniteSet(B)
                  /\ Cardinality(B) \in {Cardinality(buttons[s]), Cardinality(buttons[s]) + 1}
                  BY <3>1, FS_AddElement
            <3> HIDE DEF B
            <3>3. QED
                  BY <2>1, <3>1, <3>2, LayoutAssumption DEF Few
      <2> HIDE DEF s, B
      <2>4. \A t \in Server : Few(buttons'[t])
            BY <1>1, <1>2, <2>1, <2>3, TypedState
      <2>5. \A t \in DOMAIN docs' : Few(docs'[t])
            BY <1>2, <2>1, <2>3, TypedState DEF updateCustomButtons
      <2>6. QED
            BY <2>2, <2>4, <2>5
<1>6. QED
      BY <1>4, <1>5 DEF ButtonsInv, ButtonsFew

LEMMA RestartButtons ==
    ASSUME Typed, ButtonsInv, Restart
    PROVE  ButtonsInv'
<1>1. /\ \A h \in Handler : pc'[h] = "idle"
      /\ \A s \in Server : buttons'[s] = IF s \in DOMAIN docs THEN docs[s] ELSE {}
      /\ docs' = docs /\ incident \subseteq incident'
      BY DEF Restart, Note, databaseVars
<1>2. QED
      BY <1>1, FewEmpty DEF ButtonsInv, LocksOK, ButtonsFew, Midway

LEMMA OthersQuiet ==
    ASSUME Typed,
           \/ \E h \in Handler, q \in Request : Submit(h, q)
           \/ \E r \in Config : Create(r)
           \/ Building \/ Erase \/ Elsewhere
    PROVE  Quiet
<1>1. ASSUME NEW h \in Handler, NEW q \in Request, Submit(h, q)
      PROVE  Quiet
      <2>1. /\ \A k \in Handler : pc'[k] = IF k = h THEN "find" ELSE pc[k]
            /\ pc[h] = "idle"
            /\ \A k \in Handler \ {h} : op'[k] = op[k]
            /\ UNCHANGED <<cfg, memoryVars, databaseVars, incident>>
            BY <1>1, TypedState DEF Submit, Goto
      <2>2. QED
            BY <2>1 DEF Quiet, Midway, memoryVars, databaseVars
<1>2. ASSUME NEW r \in Config, Create(r)
      PROVE  Quiet
      <2>1. \A h \in Handler : Midway(h) => cfg[h] # None
            BY ServerListAssumption DEF Typed, FrameOK, Midway, ConfigRef
      <2>2. ~Locked(cache)
            BY <1>2, <2>1 DEF Create, Locked
      <2>3. QED
            BY <1>2, <2>2 DEF Create, Note, handlerVars, frameVars, Quiet, Midway
<1>3. CASE Building
      BY <1>3 DEF Building, handlerVars, frameVars, Quiet, Midway
<1>4. CASE Erase
      BY <1>4 DEF Erase, handlerVars, frameVars, Quiet, Midway
<1>5. CASE Elsewhere
      BY <1>5 DEF Elsewhere, handlerVars, frameVars, memoryVars, databaseVars, Quiet, Midway
<1>6. QED
      BY <1>1, <1>2, <1>3, <1>4, <1>5

LEMMA NextButtons ==
    ASSUME Typed, ButtonsInv, [Next]_vars
    PROVE  ButtonsInv'
<1>1. CASE Quiet
      BY <1>1, QuietButtons
<1>2. ASSUME NEW h \in Handler, Handle(h) PROVE ButtonsInv'
      BY <1>1, <1>2, HandleQuiet, AddServerButtons, RemoveServersButtons, AddButtonButtons,
         PushButtonButtons DEF Handle
<1>3. QED
      BY <1>1, <1>2, OthersQuiet, BuildSteps, ElsewhereSteps, RestartButtons DEF Next

\* The sizes the messages are drawn with are those the layout theorem is about.
LEMMA SizesFit ==
    ASSUME Typed, ServersInv, ButtonsInv
    PROVE  MessagesFit
<1> DEFINE config == heap[cache]
           listed == Cardinality(config.servers)
           pinned == IF config.active = None THEN 0 ELSE ButtonsOf(config.active)
<1> SUFFICES ASSUME incident \cap {"reloaded", "interrupted", "detached"} = {}, cache # None
             PROVE  /\ Fits(StatusWidgetRows(pinned, listed, Cardinality(Menu(config))))
                    /\ Fits(WidgetSettingsRows(listed, Cardinality(Menu(config))))
                    /\ listed # 0 => Fits(RemoveServerRows(listed, Cardinality(Menu(config))))
                    /\ Fits(ServerSettingsRows)
                    /\ \A s \in known :
                          /\ Fits(QueryRows(ButtonsOf(s)))
                          /\ ButtonsOf(s) # 0 => Fits(RemoveButtonRows(ButtonsOf(s)))
    BY DEF MessagesFit
<1>1. /\ cache \in ConfigRef /\ config \in ConfigType /\ known \subseteq Server
      BY TypedState
<1>2. Menu(config) = config.servers
      BY DEF ServersInv, ListedStored, Menu
<1>3. listed \in 0 .. MaxServers
      <2>1. Small(config.servers)
            BY <1>1 DEF ServersInv, SizesOK
      <2>2. QED
            BY <2>1, FS_CardinalityType, LayoutAssumption DEF Small
<1>4. \A s \in Server : ButtonsOf(s) \in 0 .. MaxButtons
      <2>1. \A s \in Server : Few(buttons[s])
            BY DEF ButtonsInv, ButtonsFew
      <2>2. QED
            BY <2>1, FS_CardinalityType, LayoutAssumption DEF Few
<1>5. pinned \in 0 .. MaxButtons
      <2>1. config.active \in Server \cup {None}
            BY <1>1 DEF ConfigType
      <2>2. CASE config.active = None
            BY <2>2, LayoutAssumption
      <2>3. CASE config.active # None
            BY <1>4, <2>1, <2>3
      <2>4. QED
            BY <2>2, <2>3
<1> HIDE DEF config, listed, pinned, ButtonsOf
<1>6. \A n \in 0 .. MaxButtons, l \in 0 .. MaxServers :
         /\ Fits(StatusWidgetRows(n, l, l))
         /\ Fits(QueryRows(n))
         /\ Fits(WidgetSettingsRows(l, l))
         /\ l # 0 => Fits(RemoveServerRows(l, l))
         /\ Fits(ServerSettingsRows)
         /\ n # 0 => Fits(RemoveButtonRows(n))
      BY DrawnMessagesFit
<1>7. \A s \in known : /\ Fits(QueryRows(ButtonsOf(s)))
                       /\ ButtonsOf(s) # 0 => Fits(RemoveButtonRows(ButtonsOf(s)))
      BY <1>1, <1>3, <1>4, <1>6
<1>8. Cardinality(Menu(config)) = listed
      BY <1>2 DEF listed
<1>9. QED
      BY <1>3, <1>5, <1>6, <1>7, <1>8

\* As long as no object but the guild's is worked on and no list is cut short,
\* Discord accepts every message the guild's configuration is drawn in.
THEOREM MessagesAccepted == Spec => []MessagesFit
<1>1. Init => Typed /\ ServersInv /\ ButtonsInv
      BY InitTyped, InitServers, InitButtons
<1>2. Typed /\ ServersInv /\ ButtonsInv /\ [Next]_vars => (Typed /\ ServersInv /\ ButtonsInv)'
      BY NextTyped, NextServers, NextButtons
<1>3. Typed /\ ServersInv /\ ButtonsInv => MessagesFit
      BY SizesFit
<1>4. QED
      BY <1>1, <1>2, <1>3, PTL DEF Spec

-----------------------------------------------------------------------------
(***************************************************************************)
(* The pinned server.  The guild's document says what is pinned in memory, *)
(* and that server has a document: a handler that removes it has the lock, *)
(* takes the pin off in both places first, and nobody pins it again before *)
(* its document goes.                                                      *)
(***************************************************************************)

Calm == incident \cap {"dbError", "detached"} = {}

PinSaved ==
    Calm => /\ cache = None <=> doc = NoDocument
            /\ cache # None => doc.pin = heap[cache].pin

KnownSaved == Calm => known \subseteq DOMAIN docs \cup Saving

PinStored == Calm /\ doc # NoDocument => doc.pin = None \/ doc.pin \in DOMAIN docs

GoneUnpinned == Calm => \A h \in Handler : pc[h] = "delete" => heap[cfg[h]].pin \notin gone[h]

PinInv == PinSaved /\ KnownSaved /\ PinStored /\ GoneUnpinned /\ PinResolved /\ ReloadedOK

\* Steps that pin nothing, unpin nothing, and forget no server.
PinsNothing ==
    /\ \A r \in ConfigRef : heap'[r].pin = heap[r].pin /\ heap'[r].active = heap[r].active
    /\ incident \subseteq incident'
    /\ "reloaded" \in incident' => "reloaded" \in incident
    /\ \A h \in Handler : pc'[h] = "delete" =>
          pc[h] = "delete" /\ cfg'[h] = cfg[h] /\ gone'[h] = gone[h]
    /\ Calm' =>
          /\ cache' = cache
          /\ doc = NoDocument <=> doc' = NoDocument
          /\ doc # NoDocument => doc'.pin = doc.pin
          /\ DOMAIN docs \subseteq DOMAIN docs'
          /\ known' \subseteq known \cup Saving'
          /\ Saving \subseteq DOMAIN docs' \cup Saving'

LEMMA InitPins == Init => PinInv
<1> SUFFICES ASSUME Init PROVE PinInv
    OBVIOUS
<1>1. /\ \A h \in Handler : pc[h] = "idle"
      /\ \A r \in ConfigRef : heap[r].pin = None /\ heap[r].active = None
      /\ cache = None /\ doc = NoDocument /\ known = {} /\ incident = {}
      BY DEF Init, Blank
<1>2. QED
      BY <1>1 DEF PinInv, PinSaved, KnownSaved, PinStored, GoneUnpinned, PinResolved, ReloadedOK

LEMMA PinsNothingPins ==
    ASSUME Typed, PinInv, PinsNothing
    PROVE  PinInv'
<1>1. Calm' => Calm
      BY DEF PinsNothing, Calm
<1>2. PinSaved'
      <2>1. cache \in ConfigRef \cup {None}
            BY TypedState
      <2>2. QED
            BY <1>1, <2>1 DEF PinInv, PinSaved, PinsNothing
<1>3. KnownSaved' /\ PinStored' /\ ReloadedOK'
      BY <1>1 DEF PinInv, KnownSaved, PinStored, PinsNothing, ReloadedOK
<1>4. GoneUnpinned'
      <2>1. \A h \in Handler : pc[h] = "delete" => cfg[h] \in ConfigRef
            BY DEF Typed, FrameOK
      <2>2. QED
            BY <1>1, <2>1 DEF PinInv, GoneUnpinned, PinsNothing
<1>5. PinResolved'
      BY DEF PinInv, PinResolved, PinsNothing
<1>6. QED
      BY <1>2, <1>3, <1>4, <1>5 DEF PinInv

LEMMA DocumentThere == \A d \in DocType : d # NoDocument
BY DEF DocType, NoDocument

\* A document that is updated is there before and after.
LEMMA UpdatedDocument ==
    ASSUME Typed, NEW config \in ConfigType
    PROVE  /\ updateServerIDs(config) = NoDocument <=> doc = NoDocument
           /\ updateStatusWidget(config) = NoDocument <=> doc = NoDocument
           /\ doc # NoDocument => /\ updateServerIDs(config).pin = doc.pin
                                  /\ updateStatusWidget(config).pin = config.pin
<1>1. CASE doc = NoDocument
      BY <1>1 DEF updateServerIDs, updateStatusWidget
<1>2. CASE doc # NoDocument
      <2>1. doc \in DocType /\ config.servers \subseteq Server /\ config.pin \in Server \cup {None}
            /\ config.agent \in BOOLEAN /\ config.message \in Message \cup {None}
            BY <1>2, TypedState DEF ConfigType
      <2>2. /\ updateServerIDs(config) \in DocType /\ updateServerIDs(config).pin = doc.pin
            /\ updateStatusWidget(config) \in DocType /\ updateStatusWidget(config).pin = config.pin
            BY <1>2, <2>1 DEF updateServerIDs, updateStatusWidget, DocType
      <2>3. QED
            BY <1>2, <2>2, DocumentThere
<1>3. QED
      BY <1>1, <1>2

\* A handler that ends without a change to a configuration or to a server.
LEMMA FinishPins ==
    ASSUME Typed, NEW h \in Handler, pc[h] # "save", Finish(h),
           UNCHANGED <<heap, cache, known, doc>>, DOMAIN docs' = DOMAIN docs,
           incident \subseteq incident', "reloaded" \in incident' => "reloaded" \in incident
    PROVE  PinsNothing
<1>1. Saving' = Saving
      BY FinishEffect DEF Saving
<1>2. QED
      BY <1>1, FinishEffect DEF PinsNothing

LEMMA HandlePins ==
    ASSUME Typed, PinInv, NEW h \in Handler,
           \/ Find(h) \/ AddServerRefused(h) \/ PinRefused(h) \/ ButtonsRefused(h)
           \/ AddButton(h) \/ PushButton(h) \/ RemoveButtons(h)
    PROVE  PinsNothing
<1>1. CASE Find(h)
      <2>1. CASE cache = None
            BY <1>1, <2>1, FinishPins DEF Find, memoryVars, databaseVars
      <2>2. CASE cache # None
            <3>1. /\ \A k \in Handler : pc'[k] = IF k = h THEN "found" ELSE pc[k]
                  /\ pc[h] = "find"
                  /\ \A k \in Handler \ {h} : cfg'[k] = cfg[k]
                  /\ UNCHANGED <<op, gone, memoryVars, databaseVars, incident>>
                  BY <1>1, <2>2, TypedState DEF Find, Goto
            <3>2. Saving' = Saving
                  BY <3>1 DEF Saving
            <3>3. QED
                  BY <3>1, <3>2 DEF PinsNothing, memoryVars, databaseVars
      <2>3. QED
            BY <2>1, <2>2
<1>2. CASE pc[h] = "found" /\ End(h)
      BY <1>2, FinishPins DEF End, memoryVars, databaseVars
<1>3. CASE AddButton(h)
      <2>1. /\ \A k \in Handler : pc'[k] = IF k = h THEN "push" ELSE pc[k]
            /\ pc[h] = "found" /\ UNCHANGED <<frameVars, memoryVars, databaseVars>>
            /\ incident \subseteq incident'
            /\ "reloaded" \in incident' => "reloaded" \in incident
            BY <1>3, TypedState DEF AddButton, At, Goto, Note, Detached
      <2>2. Saving' = Saving
            BY <2>1 DEF Saving, frameVars
      <2>3. QED
            BY <2>1, <2>2 DEF PinsNothing, frameVars, memoryVars, databaseVars
<1>4. ASSUME NEW s, NEW B, pc[h] \in {"found", "push"}, ChangeButtons(h, s, B)
      PROVE  PinsNothing
      <2>1. /\ UNCHANGED <<heap, cache, known, doc>> /\ Finish(h)
            /\ docs' \in {docs, updateCustomButtons(s, B)}
            /\ incident \subseteq incident'
            /\ "reloaded" \in incident' => "reloaded" \in incident
            BY <1>4 DEF ChangeButtons, Fail, Edit, Note, Detached
      <2>2. DOMAIN updateCustomButtons(s, B) = DOMAIN docs
            BY DEF updateCustomButtons
      <2>3. QED
            BY <1>4, <2>1, <2>2, FinishPins
<1>5. QED
      BY <1>1, <1>2, <1>3, <1>4
      DEF AddServerRefused, PinRefused, ButtonsRefused, PushButton, RemoveButtons, At

LEMMA AddServerPins ==
    ASSUME Typed, PinInv, NEW h \in Handler, AddServer(h)
    PROVE  PinsNothing
<1> DEFINE r == cfg[h]
           s == op[h].server
           config == [heap[r] EXCEPT !.servers = @ \cup {s}]
<1>1. /\ pc[h] = "found" /\ r \in ConfigRef /\ heap[r] \in ConfigType /\ s \in Server
      BY AtTyped, RequestFields DEF AddServer, At
<1>2. /\ known' = known \cup {s} /\ heap' = [heap EXCEPT ![r] = config]
      /\ UNCHANGED <<cache, docs>>
      /\ \/ doc' = updateServerIDs(config) /\ Goto(h, "save") /\ Note(Detached(r))
            /\ UNCHANGED frameVars
         \/ Fail(h) /\ UNCHANGED doc
      BY DEF AddServer
<1>3. config \in ConfigType /\ config.pin = heap[r].pin /\ config.active = heap[r].active
      <2> HIDE DEF s
      <2>1. QED
            BY <1>1 DEF ConfigType
<1> HIDE DEF r, config
<1>4. \A q \in ConfigRef : heap'[q].pin = heap[q].pin /\ heap'[q].active = heap[q].active
      BY <1>1, <1>2, <1>3, TypedState
<1>5. CASE Fail(h) /\ UNCHANGED doc
      BY <1>4, <1>5, FinishEffect DEF Fail, Note, Calm, PinsNothing
<1>6. CASE /\ doc' = updateServerIDs(config) /\ Goto(h, "save") /\ Note(Detached(r))
           /\ UNCHANGED frameVars
      <2>1. /\ \A k \in Handler : pc'[k] = IF k = h THEN "save" ELSE pc[k]
            /\ UNCHANGED <<op, cfg, gone>> /\ incident \subseteq incident'
            /\ "reloaded" \in incident' => "reloaded" \in incident
            BY <1>6, TypedState DEF Goto, Note, Detached, frameVars
      <2>2. Saving' = Saving \cup {s}
            BY <1>1, <2>1 DEF Saving
      <2>3. /\ doc = NoDocument <=> doc' = NoDocument
            /\ doc # NoDocument => doc'.pin = doc.pin
            BY <1>3, <1>6, UpdatedDocument
      <2>4. Calm' => Saving \subseteq DOMAIN docs' \cup Saving' /\ known' \subseteq known \cup Saving'
            BY <1>2, <2>2
      <2>5. QED
            BY <1>2, <1>4, <2>1, <2>3, <2>4 DEF PinsNothing
<1>7. QED
      BY <1>2, <1>5, <1>6

LEMMA SaveServerPins ==
    ASSUME Typed, PinInv, NEW h \in Handler, SaveServer(h)
    PROVE  PinsNothing
<1>1. /\ pc[h] = "save" /\ UNCHANGED <<memoryVars, doc>>
      BY DEF SaveServer
<1>2. CASE Fail(h) /\ UNCHANGED docs
      BY <1>1, <1>2, FinishEffect DEF Fail, Note, memoryVars, Calm, PinsNothing
<1>3. CASE /\ docs' = [t \in DOMAIN docs \cup {op[h].server} |->
                          IF t = op[h].server THEN {} ELSE docs[t]]
           /\ Edit(cfg[h], heap[cfg[h]], Menu(heap[cfg[h]]), buttons)
           /\ Finish(h)
      <2>1. Saving \subseteq DOMAIN docs' \cup Saving'
            BY <1>1, <1>3, FinishEffect DEF Saving
      <2>2. /\ DOMAIN docs \subseteq DOMAIN docs' /\ incident \subseteq incident'
            /\ "reloaded" \in incident' => "reloaded" \in incident
            BY <1>3 DEF Edit, Note, Detached
      <2>3. QED
            BY <1>1, <1>3, <2>1, <2>2, FinishEffect DEF memoryVars, PinsNothing
<1>4. QED
      BY <1>2, <1>3 DEF SaveServer

LEMMA RemoveServersPins ==
    ASSUME Typed, PinInv, NEW h \in Handler, RemoveServers(h)
    PROVE  PinsNothing
<1> DEFINE r == cfg[h]
           listed == op[h].servers \cap heap[r].servers
           config == Unlisted(heap[r], listed)
<1>1. /\ pc[h] = "found" /\ r \in ConfigRef /\ heap[r] \in ConfigType
      BY AtTyped DEF RemoveServers, At
<1>2. /\ heap' = [heap EXCEPT ![r] = config]
      /\ UNCHANGED <<cache, known, docs>>
      /\ \/ doc' = updateServerIDs(config) /\ Goto(h, "unpin") /\ Note(Detached(r))
            /\ gone' = [gone EXCEPT ![h] = listed] /\ UNCHANGED <<op, cfg>>
         \/ Fail(h) /\ UNCHANGED doc
      BY DEF RemoveServers
<1>3. config \in ConfigType /\ config.pin = heap[r].pin /\ config.active = heap[r].active
      BY <1>1 DEF Unlisted, ConfigType
<1> HIDE DEF r, listed, config
<1>4. \A q \in ConfigRef : heap'[q].pin = heap[q].pin /\ heap'[q].active = heap[q].active
      BY <1>1, <1>2, <1>3, TypedState
<1>5. CASE Fail(h) /\ UNCHANGED doc
      BY <1>4, <1>5, FinishEffect DEF Fail, Note, Calm, PinsNothing
<1>6. CASE /\ doc' = updateServerIDs(config) /\ Goto(h, "unpin") /\ Note(Detached(r))
           /\ gone' = [gone EXCEPT ![h] = listed] /\ UNCHANGED <<op, cfg>>
      <2>1. /\ \A k \in Handler : pc'[k] = IF k = h THEN "unpin" ELSE pc[k]
            /\ \A k \in Handler \ {h} : gone'[k] = gone[k]
            /\ incident \subseteq incident'
            /\ "reloaded" \in incident' => "reloaded" \in incident
            BY <1>6, TypedState DEF Goto, Note, Detached
      <2>2. Saving' = Saving
            BY <1>1, <1>6, <2>1 DEF Saving
      <2>3. /\ doc = NoDocument <=> doc' = NoDocument
            /\ doc # NoDocument => doc'.pin = doc.pin
            BY <1>3, <1>6, UpdatedDocument
      <2>4. QED
            BY <1>2, <1>4, <1>6, <2>1, <2>2, <2>3 DEF PinsNothing
<1>7. QED
      BY <1>2, <1>5, <1>6

LEMMA UnpinPins ==
    ASSUME Typed, ButtonsInv, PinInv, NEW h \in Handler, Unpin(h)
    PROVE  PinInv'
<1> DEFINE r == cfg[h]
           config == Unpinned(heap[r], gone[h])
<1>1. /\ pc[h] = "unpin" /\ r \in ConfigRef /\ heap[r] \in ConfigType /\ gone[h] \subseteq Server
      BY AtTyped DEF Unpin
<1>2. /\ config \in ConfigType /\ config.pin \notin gone[h]
      /\ \/ config = heap[r]
         \/ config.pin = None /\ config.active = None
      BY <1>1, ServerListAssumption DEF Unpinned, ConfigType
<1>3. /\ heap' = [heap EXCEPT ![r] = config]
      /\ UNCHANGED <<cache, known, docs>>
      /\ \/ /\ doc' = IF config = heap[r] THEN doc ELSE updateStatusWidget(config)
            /\ Goto(h, "delete") /\ incident \subseteq incident'
            /\ r = cache \/ "detached" \in incident'
            /\ "reloaded" \in incident' => "reloaded" \in incident
            /\ UNCHANGED frameVars
         \/ Fail(h) /\ UNCHANGED doc
      BY DEF Unpin, Note, Detached
<1> HIDE DEF r, config
<1>4. /\ heap'[r] = config
      /\ \A q \in ConfigRef \ {r} : heap'[q] = heap[q]
      BY <1>1, <1>3, TypedState
<1>5. PinResolved'
      <2>1. /\ incident \subseteq incident'
            BY <1>3 DEF Fail, Note
      <2>2. QED
            BY <1>2, <1>4, <2>1 DEF PinInv, PinResolved
<1>6. CASE Fail(h) /\ UNCHANGED doc
      BY <1>5, <1>6 DEF Fail, Note, Calm, PinInv, PinSaved, KnownSaved, PinStored,
         GoneUnpinned, ReloadedOK
<1>7. CASE /\ doc' = IF config = heap[r] THEN doc ELSE updateStatusWidget(config)
           /\ Goto(h, "delete") /\ incident \subseteq incident'
           /\ r = cache \/ "detached" \in incident'
           /\ "reloaded" \in incident' => "reloaded" \in incident
           /\ UNCHANGED frameVars
      <2>1. /\ \A k \in Handler : pc'[k] = IF k = h THEN "delete" ELSE pc[k]
            /\ UNCHANGED <<op, cfg, gone>>
            /\ Calm' => Calm /\ r = cache
            BY <1>7, TypedState DEF Goto, frameVars, Calm
      <2>2. Saving' = Saving
            BY <1>1, <2>1 DEF Saving
      <2>3. /\ doc = NoDocument <=> doc' = NoDocument
            /\ doc # NoDocument => doc'.pin \in {doc.pin, config.pin}
            /\ doc # NoDocument /\ config # heap[r] => doc'.pin = config.pin
            /\ config = heap[r] => doc' = doc
            BY <1>2, <1>7, UpdatedDocument
      <2>4. PinSaved'
            BY <1>1, <1>3, <1>4, <2>1, <2>3 DEF PinInv, PinSaved
      <2>5. KnownSaved'
            BY <1>3, <2>1, <2>2 DEF PinInv, KnownSaved
      <2>6. PinStored'
            <3>1. SUFFICES ASSUME Calm', doc' # NoDocument
                           PROVE  doc'.pin = None \/ doc'.pin \in DOMAIN docs'
                  BY DEF PinStored
            <3>2. Calm /\ doc # NoDocument /\ (doc.pin = None \/ doc.pin \in DOMAIN docs)
                  BY <2>1, <2>3, <3>1 DEF PinInv, PinStored
            <3>3. doc'.pin = doc.pin \/ doc'.pin = None
                  BY <1>2, <2>3, <3>2
            <3>4. QED
                  BY <1>3, <3>2, <3>3
      <2>7. GoneUnpinned'
            <3>1. SUFFICES ASSUME Calm', NEW k \in Handler, pc'[k] = "delete"
                           PROVE  heap'[cfg[k]].pin \notin gone[k]
                  BY <2>1 DEF GoneUnpinned
            <3>2. CASE k = h
                  BY <1>2, <1>4, <3>2 DEF r
            <3>3. CASE k # h
                  <4>1. pc[k] = "delete" /\ cfg[k] # r /\ cfg[k] \in ConfigRef
                        BY <1>1, <2>1, <3>1, <3>3
                        DEF r, ButtonsInv, LocksOK, Midway, Typed, FrameOK
                  <4>2. QED
                        BY <1>4, <2>1, <3>1, <4>1 DEF PinInv, GoneUnpinned
            <3>4. QED
                  BY <3>2, <3>3
      <2>8. ReloadedOK'
            BY <1>7 DEF PinInv, ReloadedOK
      <2>9. QED
            BY <1>5, <2>4, <2>5, <2>6, <2>7, <2>8 DEF PinInv
<1>8. QED
      BY <1>3, <1>6, <1>7

LEMMA DeleteServersPins ==
    ASSUME Typed, ButtonsInv, PinInv, NEW h \in Handler, DeleteServers(h)
    PROVE  PinInv'
<1>1. /\ pc[h] = "delete" /\ UNCHANGED <<heap, cache, doc>> /\ Finish(h)
      /\ incident \subseteq incident'
      /\ "reloaded" \in incident' => "reloaded" \in incident
      BY DEF DeleteServers, Fail, Edit, Note, Detached
<1>2. Saving' = Saving
      BY <1>1, FinishEffect DEF Saving
<1>3. \A k \in Handler : pc'[k] = "delete" => /\ pc[k] = "delete" /\ cfg'[k] = cfg[k]
                                              /\ gone'[k] = gone[k]
      BY <1>1, FinishEffect
<1>4. PinSaved' /\ GoneUnpinned' /\ PinResolved' /\ ReloadedOK'
      BY <1>1, <1>3 DEF PinInv, PinSaved, GoneUnpinned, PinResolved, ReloadedOK, Calm
<1>5. ASSUME Calm'
      PROVE  /\ Calm /\ cfg[h] = cache
             /\ known' = known \ gone[h] /\ DOMAIN docs' = DOMAIN docs \ gone[h]
      BY <1>1, <1>5 DEF DeleteServers, Fail, Edit, Note, Detached, Calm
<1>6. KnownSaved'
      BY <1>2, <1>5 DEF PinInv, KnownSaved
<1>7. PinStored'
      <2>1. SUFFICES ASSUME Calm', doc # NoDocument
                     PROVE  doc.pin = None \/ doc.pin \in DOMAIN docs'
            BY <1>1 DEF PinStored
      <2>2. doc.pin \notin gone[h]
            BY <1>1, <1>5, <2>1 DEF PinInv, PinSaved, GoneUnpinned
      <2>3. QED
            BY <1>5, <2>1, <2>2 DEF PinInv, PinStored
<1>8. QED
      BY <1>4, <1>6, <1>7 DEF PinInv

LEMMA PinPins ==
    ASSUME Typed, ButtonsInv, PinInv, NEW h \in Handler, Pin(h)
    PROVE  PinInv'
<1> DEFINE r == cfg[h]
           s == op[h].server
           config == [heap[r] EXCEPT !.pin = s, !.active = s]
<1>1. /\ pc[h] = "found" /\ ~Locked(r) /\ r \in ConfigRef /\ heap[r] \in ConfigType
      /\ s \in known
      BY AtTyped DEF Pin, At, Pinnable
<1>2. config \in ConfigType /\ config.pin = s /\ config.active = s
      <2>1. s \in Server
            BY <1>1, TypedState
      <2> HIDE DEF r, s
      <2>2. QED
            BY <1>1, <2>1 DEF ConfigType
<1>3. /\ heap' = [heap EXCEPT ![r] = config]
      /\ UNCHANGED <<cache, known, docs>> /\ Finish(h) /\ incident \subseteq incident'
      /\ "reloaded" \in incident' => "reloaded" \in incident
      /\ Calm' => r = cache /\ doc' = updateStatusWidget(config)
      BY DEF Pin, Fail, Edit, Note, Detached, Calm
<1> HIDE DEF r, s, config
<1>4. /\ heap'[r] = config
      /\ \A q \in ConfigRef \ {r} : heap'[q] = heap[q]
      BY <1>1, <1>3, TypedState
<1>5. Calm' => Calm
      BY <1>3 DEF Calm
<1>6. Saving' = Saving
      BY <1>1, <1>3, FinishEffect DEF Saving
<1>7. PinResolved' /\ ReloadedOK' /\ KnownSaved'
      BY <1>2, <1>3, <1>4, <1>5, <1>6 DEF PinInv, PinResolved, ReloadedOK, KnownSaved, Calm
<1>8. Calm' => /\ doc = NoDocument <=> doc' = NoDocument
               /\ doc # NoDocument => doc'.pin = s
      BY <1>2, <1>3, UpdatedDocument
<1>9. PinSaved'
      BY <1>2, <1>3, <1>4, <1>5, <1>8 DEF PinInv, PinSaved
<1>10. Calm' => s \in DOMAIN docs
      <2>1. ASSUME Calm, r = cache, NEW k \in Handler, pc[k] = "save" PROVE FALSE
            BY <1>1, <2>1 DEF ButtonsInv, LocksOK, Midway, Locked, Calm
      <2>2. Calm /\ r = cache => Saving = {}
            BY <2>1 DEF Saving
      <2>3. QED
            BY <1>1, <1>3, <1>5, <2>2 DEF PinInv, KnownSaved
<1>11. PinStored'
      BY <1>3, <1>8, <1>10 DEF PinStored
<1>12. GoneUnpinned'
      <2>1. ASSUME Calm', NEW k \in Handler, pc'[k] = "delete"
            PROVE  heap'[cfg'[k]].pin \notin gone'[k]
            <3>1. pc[k] = "delete" /\ cfg'[k] = cfg[k] /\ gone'[k] = gone[k]
                  BY <1>3, <2>1, FinishEffect
            <3>2. cfg[k] # r /\ cfg[k] \in ConfigRef
                  BY <1>1, <3>1 DEF Locked, Midway, Typed, FrameOK
            <3>3. QED
                  BY <1>4, <1>5, <2>1, <3>1, <3>2 DEF PinInv, GoneUnpinned
      <2>2. QED
            BY <2>1 DEF GoneUnpinned
<1>13. QED
      BY <1>7, <1>9, <1>11, <1>12 DEF PinInv

LEMMA CreatePins ==
    ASSUME Typed, PinInv, NEW r \in Config, Create(r)
    PROVE  PinInv'
<1>1. /\ r \in ConfigRef /\ heap' = [heap EXCEPT ![r] = [Blank EXCEPT !.building = TRUE]]
      /\ cache' = r /\ r # None
      /\ UNCHANGED <<pc, op, cfg, gone, known, docs>> /\ incident \subseteq incident'
      /\ "reloaded" \in incident' => "reloaded" \in incident
      BY ServerListAssumption DEF Create, ConfigRef, Note, handlerVars, frameVars
<1>2. /\ heap'[r] \in ConfigType /\ heap'[r].pin = None /\ heap'[r].active = None
      /\ \A q \in ConfigRef \ {r} : heap'[q] = heap[q]
      BY <1>1, BlankConfig, TypedState DEF Blank
<1>3. doc' \in DocType /\ doc'.pin = None
      BY <1>2 DEF Create, getValue, ConfigType, DocType
<1>4. Saving' = Saving
      BY <1>1 DEF Saving
<1>5. PinSaved' /\ PinStored'
      BY <1>1, <1>2, <1>3, DocumentThere DEF PinSaved, PinStored
<1>6. KnownSaved' /\ ReloadedOK' /\ PinResolved'
      BY <1>1, <1>2, <1>4 DEF PinInv, KnownSaved, ReloadedOK, PinResolved, Calm
<1>7. GoneUnpinned'
      <2>1. ASSUME NEW h \in Handler, Calm', pc[h] = "delete"
            PROVE  heap'[cfg[h]].pin \notin gone[h]
            <3>1. cfg[h] \in ConfigRef /\ gone[h] \subseteq Server
                  BY <2>1, AtTyped
            <3>2. Calm
                  BY <1>1, <2>1 DEF Calm
            <3>3. QED
                  BY <1>2, <2>1, <3>1, <3>2, ServerListAssumption DEF PinInv, GoneUnpinned
      <2>2. QED
            BY <1>1, <2>1 DEF GoneUnpinned
<1>8. QED
      BY <1>5, <1>6, <1>7 DEF PinInv

LEMMA BuildingPins ==
    ASSUME Typed, PinInv, Building
    PROVE  PinsNothing
<1>1. /\ cache \in ConfigRef /\ cache # None
      /\ \A r \in ConfigRef : heap'[r].pin = heap[r].pin /\ heap'[r].active = heap[r].active
      BY BuildingTyped DEF Building
<1>2. heap'[cache] \in ConfigType
      BY <1>1, BuildingTyped DEF Typed, TypeOK, ConfigType, Building
<1>3. /\ UNCHANGED <<pc, op, cfg, gone, cache, known, docs, incident>>
      /\ doc' \in {doc, updateStatusWidget(heap'[cache])}
      BY DEF Building, handlerVars, frameVars
<1>4. /\ doc = NoDocument <=> doc' = NoDocument
      /\ Calm /\ doc # NoDocument => doc'.pin = doc.pin
      BY <1>1, <1>2, <1>3, UpdatedDocument DEF PinInv, PinSaved
<1>5. Saving' = Saving /\ Calm' = Calm
      BY <1>3 DEF Saving, Calm
<1>6. QED
      BY <1>1, <1>3, <1>4, <1>5 DEF PinsNothing

LEMMA ErasePins ==
    ASSUME Typed, PinInv, Erase
    PROVE  PinInv'
<1>1. /\ doc' = NoDocument /\ cache' = None
      /\ UNCHANGED <<pc, op, cfg, gone, heap, known, docs, incident>>
      BY DEF Erase, handlerVars, frameVars
<1>2. Saving' = Saving /\ Calm' = Calm
      BY <1>1 DEF Saving, Calm
<1>3. QED
      BY <1>1, <1>2
      DEF PinInv, PinSaved, KnownSaved, PinStored, GoneUnpinned, PinResolved, ReloadedOK

LEMMA SubmitPins ==
    ASSUME Typed, PinInv, NEW h \in Handler, NEW q \in Request, Submit(h, q)
    PROVE  PinsNothing
<1>1. /\ \A k \in Handler : pc'[k] = IF k = h THEN "find" ELSE pc[k]
      /\ pc[h] = "idle"
      /\ \A k \in Handler \ {h} : op'[k] = op[k]
      /\ UNCHANGED <<cfg, gone, memoryVars, databaseVars, incident>>
      BY TypedState DEF Submit, Goto
<1>2. Saving' = Saving
      BY <1>1 DEF Saving
<1>3. QED
      BY <1>1, <1>2 DEF PinsNothing, memoryVars, databaseVars

\* What was pinned is found again.
LEMMA RestartPins ==
    ASSUME Typed, PinInv, Restart
    PROVE  PinInv'
<1>1. /\ Boot \in ConfigRef /\ Boot # None /\ UNCHANGED <<doc, docs>> /\ known' = DOMAIN docs
      /\ \A h \in Handler : pc'[h] = "idle"
      /\ cache' = IF doc = NoDocument THEN None ELSE Boot
      BY ServerListAssumption DEF Restart, ConfigRef, databaseVars
<1>2. /\ doc # NoDocument => /\ heap'[Boot].pin = doc.pin
                             /\ heap'[Boot].active = LoadedActive(doc.pin)
      /\ doc = NoDocument => heap'[Boot].pin = None /\ heap'[Boot].active = None
      /\ \A r \in ConfigRef \ {Boot} : heap'[r].pin = None /\ heap'[r].active = None
      BY <1>1 DEF Restart, Blank
<1>3. /\ incident \subseteq incident'
      /\ "reloaded" \in incident' <=> "reloaded" \in incident \/ "dbError" \in incident
      /\ "dbError" \in incident' => "dbError" \in incident
      BY DEF Restart, Note
<1>4. Calm' => Calm
      BY <1>3 DEF Calm
<1>5. PinSaved' /\ KnownSaved' /\ PinStored' /\ GoneUnpinned' /\ ReloadedOK'
      BY <1>1, <1>2, <1>3, <1>4
      DEF PinInv, PinSaved, KnownSaved, PinStored, GoneUnpinned, ReloadedOK
<1>6. PinResolved'
      <2>1. SUFFICES ASSUME incident' \cap {"reloaded", "detached"} = {}
                     PROVE  \A r \in ConfigRef : heap'[r].pin = heap'[r].active
            BY DEF PinResolved
      <2>2. Calm
            BY <1>3, <2>1 DEF Calm
      <2>3. doc # NoDocument => LoadedActive(doc.pin) = doc.pin
            BY <2>2, TypedState, ServerListAssumption DEF PinInv, PinStored, LoadedActive
      <2>4. QED
            BY <1>2, <2>3
<1>7. QED
      BY <1>5, <1>6 DEF PinInv

LEMMA NextPins ==
    ASSUME Typed, ButtonsInv, PinInv, [Next]_vars
    PROVE  PinInv'
<1>1. CASE PinsNothing
      BY <1>1, PinsNothingPins
<1>2. ASSUME NEW h \in Handler, Handle(h) PROVE PinInv'
      BY <1>1, <1>2, HandlePins, AddServerPins, SaveServerPins, RemoveServersPins, UnpinPins,
         DeleteServersPins, PinPins DEF Handle
<1>3. CASE Elsewhere
      <2>1. Saving' = Saving
            BY <1>3 DEF Elsewhere, handlerVars, frameVars, Saving
      <2>2. QED
            BY <1>1, <1>3, <2>1
            DEF Elsewhere, handlerVars, frameVars, memoryVars, databaseVars, PinsNothing
<1>4. QED
      BY <1>1, <1>2, <1>3, SubmitPins, CreatePins, BuildSteps, BuildingPins, ErasePins,
         RestartPins, ElsewhereSteps DEF Next

\* The object of a pinned server is always there, also after a start of the process
\* at any point of any handler.
THEOREM PinnedServersResolved == Spec => []PinResolved
<1>1. Init => Typed /\ ButtonsInv /\ PinInv
      BY InitTyped, InitButtons, InitPins
<1>2. Typed /\ ButtonsInv /\ PinInv /\ [Next]_vars => (Typed /\ ButtonsInv /\ PinInv)'
      BY NextTyped, NextButtons, NextPins
<1>3. PinInv => PinResolved
      BY DEF PinInv
<1>4. QED
      BY <1>1, <1>2, <1>3, PTL DEF Spec

-----------------------------------------------------------------------------
(***************************************************************************)
(* What the guild's document, the servers' documents, the widget and the   *)
(* list say when the lock is free.  None of it holds at every moment: a    *)
(* handler changes memory, the two collections and the widget one after    *)
(* the other.  The invariant says, step by step, which of them may be      *)
(* behind: a server that is being saved has no document and no buttons, a  *)
(* widget may be behind while somebody has the lock, and a pin may point   *)
(* to a server of the list or to one that a handler is about to unpin.     *)
(* Each part names the incidents it survives.                              *)
(***************************************************************************)

\* A server that never came into being has no document and no button.
IdsUsed ==
    /\ known \subseteq used /\ DOMAIN docs \subseteq used
    /\ \A s \in Server \ used : buttons[s] = {}
    /\ \A h \in Handler : pc[h] = "push" => op[h].server \in used

\* A document, or one that is about to be inserted, is of a server that is stored.
DocsKnown == Calm => DOMAIN docs \cup Saving \subseteq known

\* The buttons in memory are those of the document, and there are none before it.
ButtonsSaved ==
    Calm => /\ \A s \in known \cap DOMAIN docs : docs[s] = buttons[s]
            /\ \A s \in Saving : buttons[s] = {}

\* The guild's document, but for the pin, which PinSaved is about.
DocSaved ==
    Calm /\ cache # None =>
        /\ doc.servers = heap[cache].servers
        /\ doc.message = heap[cache].message
        /\ \/ doc.agent = (heap[cache].agent /\ ~heap[cache].building)
           \/ "unfinished" \in incident /\ doc.agent = TRUE

\* A draft is part of a build, and a build starts without a message.
BuildsOK ==
    \A r \in ConfigRef : /\ heap[r].draft # None => heap[r].building
                         /\ heap[r].building => heap[r].message = None

\* The ids of messages are new when they come up: none of those that are recorded or
\* edited is that of a message to come.
MessagesUsed ==
    /\ \A r \in ConfigRef : heap[r].message \in used \cup {None}
    /\ doc # NoDocument => doc.message \in used \cup {None}
    /\ \A e \in edits : e.message \in used

\* The newest edit of a widget draws this, and there is such an edit unless the
\* widget shows it, or is behind.
Draws(m, drawing) ==
    /\ \A e \in edits : e.message = m /\ e.last => e.draws = drawing
    /\ \/ m \in behind
       \/ shown[m] \in {None, drawing}
       \/ \E e \in edits : e.message = m /\ e.last

\* What the widget's edits and the draft draw may be behind only while the lock is held.
Drawn ==
    incident \subseteq {"unfinished", "recreated"} /\ cache # None /\ ~Locked(cache) =>
        /\ heap[cache].message # None =>
              Draws(heap[cache].message, Widget(heap[cache], buttons))
        /\ heap[cache].draft # None => heap[cache].draft = Widget(heap[cache], buttons)

\* The incidents after which a server may be stored without being listed.
Tame == incident \cap {"dbError", "detached", "recreated", "interrupted"} = {}

\* Every stored server is listed, unless a handler is removing it.
KnownListed ==
    Tame /\ cache # None =>
        \A s \in known : \/ s \in heap[cache].servers
                         \/ \E h \in Handler : Removing(h) /\ s \in gone[h]

\* So is the pinned server, unless a handler is about to take the pin off.
PinHeld ==
    Tame /\ cache # None /\ heap[cache].pin # None =>
        \/ heap[cache].pin \in heap[cache].servers
        \/ \E h \in Handler : /\ pc[h] = "unpin" /\ cfg[h] = cache
                              /\ heap[cache].pin \in gone[h]

\* Steps that change nothing but where a handler stands, and take no lock but to
\* add a button.
Still ==
    /\ UNCHANGED <<memoryVars, databaseVars, discordVars>>
    /\ used \subseteq used' /\ incident \subseteq incident'
    /\ \A k \in Handler :
          /\ Midway(k) => UNCHANGED <<pc[k], op[k], cfg[k], gone[k]>>
          /\ Midway(k)' => Midway(k) \/ (pc'[k] = "push" /\ op'[k].server \in known)

LEMMA StillSteps ==
    ASSUME Typed, NEW h \in Handler,
           \/ \E q \in Request : Submit(h, q)
           \/ Find(h) \/ AddServerRefused(h) \/ PinRefused(h) \/ ButtonsRefused(h)
           \/ AddButton(h)
    PROVE  Still
<1>1. ASSUME NEW q \in Request, Submit(h, q) PROVE Still
      BY <1>1, TypedState DEF Submit, Goto, Still, Midway, memoryVars, databaseVars
<1>2. ASSUME Finish(h), pc[h] \in {"find", "found"},
             UNCHANGED <<memoryVars, databaseVars, discordVars, used, incident>>
      PROVE  Still
      BY <1>2, FinishEffect DEF Still, Midway
<1>3. CASE Find(h)
      <2>1. CASE cache = None
            BY <1>2, <1>3, <2>1 DEF Find
      <2>2. CASE cache # None
            BY <1>3, <2>2, TypedState DEF Find, Goto, Still, Midway, memoryVars, databaseVars
      <2>3. QED
            BY <2>1, <2>2
<1>4. CASE pc[h] = "found" /\ End(h)
      BY <1>2, <1>4 DEF End
<1>5. CASE AddButton(h)
      BY <1>5, TypedState
      DEF AddButton, At, Goto, Note, Still, Midway, frameVars, memoryVars, databaseVars
<1>6. QED
      BY <1>1, <1>3, <1>4, <1>5 DEF AddServerRefused, PinRefused, ButtonsRefused, At

\* What a handler does to the objects and the servers, its database calls apart.
LEMMA HandlerEffect ==
    ASSUME Typed, NEW h \in Handler,
           \/ AddServer(h) \/ SaveServer(h) \/ RemoveServers(h) \/ Unpin(h)
           \/ DeleteServers(h) \/ Pin(h) \/ PushButton(h) \/ RemoveButtons(h)
    PROVE  /\ cfg[h] \in ConfigRef /\ cfg[h] # None
           /\ cache' = cache
           /\ \A r \in ConfigRef : /\ heap'[r].draft = heap[r].draft
                                   /\ heap'[r].building = heap[r].building
                                   /\ heap'[r].agent = heap[r].agent
                                   /\ heap'[r].message = heap[r].message
                                   /\ r # cfg[h] => heap'[r] = heap[r]
           /\ used \subseteq used' /\ incident \subseteq incident'
           /\ \A k \in Handler \ {h} : UNCHANGED <<pc[k], op[k], cfg[k], gone[k]>>
           /\ Calm' => Calm /\ cfg[h] = cache
<1>1. /\ cfg[h] \in ConfigRef /\ cfg[h] # None /\ heap[cfg[h]] \in ConfigType
      /\ heap \in [ConfigRef -> ConfigType]
      <2>1. pc[h] \notin {"idle", "find"}
            BY DEF AddServer, SaveServer, RemoveServers, Unpin, DeleteServers, Pin,
                   PushButton, RemoveButtons, At
      <2>2. QED
            BY <2>1, AtTyped, TypedState, ServerListAssumption DEF ConfigRef
<1>2. /\ cache' = cache /\ used \subseteq used' /\ incident \subseteq incident'
      /\ Calm' => Calm /\ cfg[h] = cache
      BY DEF AddServer, SaveServer, RemoveServers, Unpin, DeleteServers, Pin, PushButton,
             RemoveButtons, ChangeButtons, Edit, Fail, Note, Detached, Calm, memoryVars
<1>3. \A k \in Handler \ {h} : UNCHANGED <<pc[k], op[k], cfg[k], gone[k]>>
      <2>1. \/ Finish(h)
            \/ /\ UNCHANGED <<op, cfg>> /\ \E label : Goto(h, label)
               /\ gone' = gone \/ \E S : gone' = [gone EXCEPT ![h] = S]
            BY DEF AddServer, SaveServer, RemoveServers, Unpin, DeleteServers, Pin,
                   PushButton, RemoveButtons, ChangeButtons, Fail, frameVars
      <2>2. QED
            BY <2>1, FinishEffect, TypedState DEF Goto
<1>4. \A r \in ConfigRef : /\ heap'[r].draft = heap[r].draft
                           /\ heap'[r].building = heap[r].building
                           /\ heap'[r].agent = heap[r].agent
                           /\ heap'[r].message = heap[r].message
                           /\ r # cfg[h] => heap'[r] = heap[r]
      <2>1. CASE UNCHANGED heap
            BY <2>1
      <2>2. CASE heap' = [heap EXCEPT ![cfg[h]] = Unlisted(heap[cfg[h]],
                             op[h].servers \cap heap[cfg[h]].servers)]
            BY <1>1, <2>2 DEF Unlisted, ConfigType
      <2>3. CASE heap' = [heap EXCEPT ![cfg[h]] = Unpinned(heap[cfg[h]], gone[h])]
            BY <1>1, <2>3 DEF Unpinned, ConfigType
      <2>4. CASE heap' = [heap EXCEPT ![cfg[h]] =
                             [heap[cfg[h]] EXCEPT !.servers = @ \cup {op[h].server}]]
            BY <1>1, <2>4 DEF ConfigType
      <2>5. CASE heap' = [heap EXCEPT ![cfg[h]] =
                             [heap[cfg[h]] EXCEPT !.pin = op[h].server, !.active = op[h].server]]
            BY <1>1, <2>5 DEF ConfigType
      <2>6. QED
            BY <2>1, <2>2, <2>3, <2>4, <2>5
            DEF AddServer, SaveServer, RemoveServers, Unpin, DeleteServers, Pin,
                PushButton, RemoveButtons, ChangeButtons, memoryVars
<1>5. QED
      BY <1>1, <1>2, <1>3, <1>4

-----------------------------------------------------------------------------
(* Ids and builds. *)

LEMMA NextBuilds ==
    ASSUME Typed, BuildsOK, [Next]_vars
    PROVE  BuildsOK'
<1>0. heap \in [ConfigRef -> ConfigType] /\ cache \in ConfigRef \cup {None}
      BY TypedState
<1>1. CASE UNCHANGED heap
      BY <1>1 DEF BuildsOK
<1>2. ASSUME NEW h \in Handler, Handle(h) PROVE BuildsOK'
      <2>1. CASE \/ AddServer(h) \/ SaveServer(h) \/ RemoveServers(h) \/ Unpin(h)
                 \/ DeleteServers(h) \/ Pin(h) \/ PushButton(h) \/ RemoveButtons(h)
            BY <2>1, HandlerEffect DEF BuildsOK
      <2>2. CASE \/ Find(h) \/ AddServerRefused(h) \/ PinRefused(h) \/ ButtonsRefused(h)
                 \/ AddButton(h)
            BY <1>1, <2>2, StillSteps DEF Still, memoryVars
      <2>3. QED
            BY <1>2, <2>1, <2>2 DEF Handle
<1>3. ASSUME NEW r \in Config, Create(r) PROVE BuildsOK'
      BY <1>0, <1>3 DEF Create, Blank, BuildsOK
<1>4. CASE Rebuild
      BY <1>0, <1>4 DEF Rebuild, BuildsOK, ConfigType
<1>5. CASE Draft
      BY <1>0, <1>5 DEF Draft, BuildsOK, ConfigType
<1>6. ASSUME NEW m \in Message, Publish(m) PROVE BuildsOK'
      BY <1>0, <1>6 DEF Publish, BuildsOK, ConfigType
<1>7. CASE BuildFails
      BY <1>0, <1>7 DEF BuildFails, BuildsOK, ConfigType
<1>8. CASE Restart
      BY <1>8 DEF Restart, Blank, BuildsOK
<1>9. QED
      BY <1>1, <1>2, <1>3, <1>4, <1>5, <1>6, <1>7, <1>8
      DEF Next, Submit, Erase, Deleted, Apply, Refuse, vars, memoryVars

LEMMA NextUsed ==
    ASSUME Typed, ServersInv, IdsUsed, [Next]_vars
    PROVE  IdsUsed'
<1>1. ASSUME Still PROVE IdsUsed'
      <2>1. \A h \in Handler : pc'[h] = "push" => op'[h].server \in used
            BY <1>1 DEF Still, IdsUsed, Midway
      <2>2. QED
            BY <1>1, <2>1 DEF Still, memoryVars, databaseVars, IdsUsed
<1>2. ASSUME NEW h \in Handler,
             \/ AddServer(h) \/ SaveServer(h) \/ RemoveServers(h) \/ Unpin(h)
             \/ DeleteServers(h) \/ Pin(h) \/ PushButton(h) \/ RemoveButtons(h)
      PROVE  IdsUsed'
      <2>1. pc'[h] # "push"
            <3>1. Finish(h) \/ \E label \in {"save", "unpin", "delete"} : Goto(h, label)
                  BY <1>2
                  DEF AddServer, SaveServer, RemoveServers, Unpin, DeleteServers, Pin,
                      PushButton, RemoveButtons, ChangeButtons, Fail
            <3>2. QED
                  BY <3>1, FinishEffect, TypedState DEF Goto
      <2>2. \A k \in Handler : pc'[k] = "push" => op'[k].server \in used'
            BY <1>2, <2>1, HandlerEffect DEF IdsUsed
      <2>3. known' \subseteq used'
            BY <1>2
            DEF IdsUsed, AddServer, SaveServer, RemoveServers, Unpin, DeleteServers, Pin,
                PushButton, RemoveButtons, ChangeButtons, memoryVars
      <2>4. DOMAIN docs' \subseteq used'
            <3>1. CASE SaveServer(h)
                  BY <3>1 DEF SaveServer, IdsUsed, ServersInv, IdsNew
            <3>2. ASSUME NEW s, NEW B, ChangeButtons(h, s, B) PROVE DOMAIN docs' = DOMAIN docs
                  BY <3>2 DEF ChangeButtons, updateCustomButtons
            <3>3. CASE DeleteServers(h)
                  BY <3>3 DEF DeleteServers, IdsUsed
            <3>4. CASE AddServer(h) \/ RemoveServers(h) \/ Unpin(h) \/ Pin(h)
                  <4>1. docs' = docs
                        BY <3>4 DEF AddServer, RemoveServers, Unpin, Pin
                  <4>2. QED
                        BY <1>2, <4>1, HandlerEffect DEF IdsUsed
            <3>5. CASE PushButton(h) \/ RemoveButtons(h)
                  <4>1. DOMAIN docs' = DOMAIN docs
                        BY <3>2, <3>5 DEF PushButton, RemoveButtons
                  <4>2. QED
                        BY <1>2, <4>1, HandlerEffect DEF IdsUsed
            <3>6. QED
                  BY <1>2, <3>1, <3>3, <3>4, <3>5
      <2>5. \A s \in Server \ used' : buttons'[s] = {}
            <3>1. ASSUME NEW s \in used, NEW B, ChangeButtons(h, s, B) PROVE \A t \in Server \ used : buttons'[t] = {}
                  BY <3>1, TypedState DEF ChangeButtons, IdsUsed
            <3>2. CASE PushButton(h)
                  BY <3>1, <3>2, HandlerEffect DEF PushButton, IdsUsed
            <3>3. CASE RemoveButtons(h)
                  BY <3>1, <3>3, HandlerEffect DEF RemoveButtons, IdsUsed
            <3>4. QED
                  BY <1>2, <3>2, <3>3, HandlerEffect
                  DEF IdsUsed, AddServer, SaveServer, RemoveServers, Unpin, DeleteServers, Pin,
                      memoryVars
      <2>6. QED
            BY <2>2, <2>3, <2>4, <2>5 DEF IdsUsed
<1>3. ASSUME UNCHANGED <<known, buttons, docs, pc, op>>, used \subseteq used' PROVE IdsUsed'
      BY <1>3 DEF IdsUsed
<1>4. CASE Restart
      BY <1>4 DEF Restart, databaseVars, IdsUsed
<1>5. CASE Elsewhere
      BY <1>3, <1>5 DEF Elsewhere, handlerVars, frameVars, memoryVars, databaseVars
<1>6. CASE \/ Rebuild \/ Draft \/ BuildFails \/ Erase \/ \E r \in Config : Create(r)
           \/ \E m \in Message : Publish(m)
      BY <1>3, <1>6
      DEF Rebuild, Draft, Publish, BuildFails, Erase, Create, handlerVars, frameVars,
          databaseVars
<1>7. QED
      BY <1>1, <1>2, <1>4, <1>5, <1>6, StillSteps, ElsewhereSteps DEF Next, Handle

\* The fields of a document that is updated.
LEMMA UpdatedFields ==
    ASSUME Typed, NEW config \in ConfigType, doc # NoDocument
    PROVE  /\ updateServerIDs(config).servers = config.servers
           /\ updateServerIDs(config).agent = doc.agent
           /\ updateServerIDs(config).message = doc.message
           /\ updateStatusWidget(config).servers = doc.servers
           /\ updateStatusWidget(config).agent = config.agent
           /\ updateStatusWidget(config).message = config.message
<1>1. doc \in DocType
      BY TypedState
<1>2. QED
      BY <1>1 DEF updateServerIDs, updateStatusWidget, DocType

LEMMA NextMessages ==
    ASSUME Typed, MessagesUsed, [Next]_vars
    PROVE  MessagesUsed'
<1>1. /\ heap \in [ConfigRef -> ConfigType] /\ doc \in DocType \cup {NoDocument}
      /\ edits \subseteq [message : Message, draws : Drawing, last : BOOLEAN]
      BY TypedState
<1>2. ASSUME UNCHANGED <<heap, doc, edits>>, used \subseteq used' PROVE MessagesUsed'
      BY <1>2 DEF MessagesUsed
<1>3. ASSUME NEW h \in Handler,
             \/ AddServer(h) \/ SaveServer(h) \/ RemoveServers(h) \/ Unpin(h)
             \/ DeleteServers(h) \/ Pin(h) \/ PushButton(h) \/ RemoveButtons(h)
      PROVE  MessagesUsed'
      <2>1. /\ \A r \in ConfigRef : heap'[r].message = heap[r].message
            /\ used \subseteq used' /\ cfg[h] \in ConfigRef
            BY <1>3, HandlerEffect
      <2>2. heap' \in [ConfigRef -> ConfigType]
            BY <1>3, AddServerTyped, SaveServerTyped, RemoveServersTyped, UnpinTyped,
               DeleteServersTyped, PinTyped, ButtonsTyped DEF Typed, TypeOK, ConfigType
      <2>3. doc' # NoDocument =>
               /\ doc # NoDocument
               /\ doc'.message = doc.message \/ \E r \in ConfigRef : doc'.message = heap[r].message
            <3>1. \/ doc' = doc
                  \/ \E config \in {heap'[cfg[h]]} :
                        doc' = updateServerIDs(config) \/ doc' = updateStatusWidget(config)
                  BY <1>1, <1>3, <2>1
                  DEF AddServer, SaveServer, RemoveServers, Unpin, DeleteServers, Pin,
                      PushButton, RemoveButtons, ChangeButtons
            <3>2. \A config \in {heap'[cfg[h]]} : config \in ConfigType
                  BY <2>1, <2>2
            <3>3. QED
                  BY <2>1, <3>1, <3>2, UpdatedDocument, UpdatedFields
      <2> DEFINE r == cfg[h]
                 Edited(e) == \/ \E f \in edits : e.message = f.message
                              \/ heap'[r].message # None /\ e.message = heap'[r].message
      <2>4. \A e \in edits' : Edited(e)
            <3>1. CASE edits' = edits
                  BY <3>1
            <3>2. ASSUME NEW menu, NEW b, Edit(r, heap'[r], menu, b)
                  PROVE  \A e \in edits' : Edited(e)
                  <4> DEFINE m == heap'[r].message
                             new == [message |-> m, draws |-> Draw(heap'[r], menu, b),
                                     last |-> TRUE]
                  <4>1. edits' = IF m = None THEN edits
                                 ELSE {[f EXCEPT !.last = @ /\ f.message # m] : f \in edits}
                                         \cup {new}
                        BY <3>2 DEF Edit, updateServerStatusWidget
                  <4>2. \A f \in edits : [f EXCEPT !.last = @ /\ f.message # m].message = f.message
                        BY <1>1
                  <4>3. new.message = m
                        OBVIOUS
                  <4>4. ASSUME m # None PROVE Edited(new)
                        BY <4>3, <4>4
                  <4>5. ASSUME NEW f \in edits
                        PROVE  Edited(f) /\ Edited([f EXCEPT !.last = @ /\ f.message # m])
                        BY <4>2
                  <4> HIDE DEF m, new, Edited
                  <4>6. QED
                        BY <4>1, <4>4, <4>5
            <3>3. edits' = edits \/ \E menu, b : Edit(r, heap'[r], menu, b)
                  BY <1>1, <1>3, <2>1
                  DEF AddServer, SaveServer, RemoveServers, Unpin, DeleteServers, Pin,
                      PushButton, RemoveButtons, ChangeButtons, Fail, memoryVars
            <3> HIDE DEF r, Edited
            <3>4. QED
                  BY <3>1, <3>2, <3>3
      <2>5. QED
            BY <2>1, <2>3, <2>4 DEF MessagesUsed
<1>4. ASSUME NEW h \in Handler,
             \/ \E q \in Request : Submit(h, q)
             \/ Find(h) \/ AddServerRefused(h) \/ PinRefused(h) \/ ButtonsRefused(h)
             \/ AddButton(h)
      PROVE  MessagesUsed'
      BY <1>2, <1>4, StillSteps DEF Still, memoryVars, databaseVars
<1>5. ASSUME NEW r \in Config, Create(r) PROVE MessagesUsed'
      <2>1. r \in ConfigRef /\ heap'[r] = [Blank EXCEPT !.building = TRUE]
            BY <1>1, <1>5 DEF Create, ConfigRef
      <2>2. heap'[r].message = None /\ doc'.message = None
            BY <1>5, <2>1 DEF Create, Blank, getValue
      <2>3. QED
            BY <1>1, <1>5, <2>2 DEF Create, MessagesUsed
<1>6. ASSUME Building, NEW m, used' = used \cup {m} \/ used' = used,
             heap'[cache].message \in {heap[cache].message, None, m},
             m \in used'
      PROVE  MessagesUsed'
      <2>1. cache \in ConfigRef /\ heap'[cache] \in ConfigType
            BY <1>6, BuildingTyped DEF Typed, TypeOK, ConfigType
      <2>2. \A r \in ConfigRef \ {cache} : heap'[r] = heap[r]
            BY <1>1, <1>6 DEF Building
      <2>3. doc' # NoDocument => doc # NoDocument
                                 /\ doc'.message \in {doc.message, heap'[cache].message}
            BY <1>6, <2>1, UpdatedDocument, UpdatedFields DEF Building
      <2>4. edits' = edits
            BY <1>6 DEF Building
      <2>5. QED
            BY <1>6, <2>1, <2>2, <2>3, <2>4 DEF MessagesUsed
<1>7. CASE Rebuild \/ Draft \/ BuildFails
      <2>1. heap'[cache].message \in {heap[cache].message, None}
            BY <1>1, <1>7 DEF Rebuild, Draft, BuildFails, ConfigType
      <2>2. cache \in ConfigRef /\ used' = used /\ Building
            BY <1>7, BuildSteps, BuildingTyped DEF Rebuild, Draft, BuildFails
      <2>3. \A r \in ConfigRef \ {cache} : heap'[r] = heap[r]
            BY <1>1, <2>2 DEF Building
      <2>4. heap'[cache] \in ConfigType
            BY <2>2, BuildingTyped DEF Typed, TypeOK, ConfigType
      <2>5. doc' # NoDocument => doc # NoDocument
                                 /\ doc'.message \in {doc.message, heap'[cache].message}
            BY <2>2, <2>4, UpdatedDocument, UpdatedFields DEF Building
      <2>6. QED
            BY <2>1, <2>2, <2>3, <2>5 DEF MessagesUsed, Building
<1>8. ASSUME NEW m \in Message, Publish(m) PROVE MessagesUsed'
      <2>1. heap'[cache].message = m /\ used' = used \cup {m} /\ Building
            BY <1>1, <1>8, BuildSteps, TypedState DEF Publish, ConfigType
      <2>2. QED
            BY <1>6, <2>1
<1>9. CASE Erase
      BY <1>9 DEF Erase, MessagesUsed
<1>10. CASE \/ UNCHANGED vars
            \/ \E m \in Message : Deleted(m)
            \/ \E e \in edits : Apply(e) \/ Refuse(e)
      <2>1. edits' \subseteq edits /\ UNCHANGED <<heap, doc, used>>
            BY <1>10 DEF Deleted, Apply, Refuse, vars, memoryVars, databaseVars
      <2>2. QED
            BY <2>1 DEF MessagesUsed
<1>11. CASE Restart
      <2>1. \A r \in ConfigRef : \/ heap'[r].message = None
                                 \/ doc # NoDocument /\ heap'[r].message = doc.message
            BY <1>11 DEF Restart, Blank
      <2>2. QED
            BY <1>11, <2>1 DEF Restart, databaseVars, MessagesUsed
<1>12. QED
      BY <1>3, <1>4, <1>5, <1>7, <1>8, <1>9, <1>10, <1>11 DEF Next, Handle

Matches ==
    /\ DocsKnown /\ ButtonsSaved /\ DocSaved /\ Drawn
    /\ KnownListed /\ PinHeld

\* What the conditions of the invariants say of a step and of the state before it.
LEMMA Earlier ==
    ASSUME incident \subseteq incident'
    PROVE  /\ Calm' => Calm
           /\ Tame' => Tame /\ Calm'
           /\ incident' \subseteq {"unfinished", "recreated"} =>
                 incident \subseteq {"unfinished", "recreated"} /\ Calm'
BY DEF Calm, Tame

LEMMA StillMatches ==
    ASSUME Typed, Matches, Still
    PROVE  Matches'
<1>1. /\ UNCHANGED <<heap, cache, known, buttons, doc, docs, discordVars>>
      /\ incident \subseteq incident'
      BY DEF Still, memoryVars, databaseVars
<1>2. Saving' = Saving
      BY DEF Still, Saving, Midway
<1>3. \A r : Locked(r) => Locked(r)'
      BY DEF Still, Locked, Midway
<1>4. DocsKnown' /\ ButtonsSaved' /\ DocSaved'
      BY <1>1, <1>2, Earlier
      DEF Matches, DocsKnown, ButtonsSaved, DocSaved
<1>5. Drawn'
      BY <1>1, <1>3, Earlier DEF Matches, Drawn, Draws, Widget, Draw, Menu
<1>6. KnownListed' /\ PinHeld'
      BY <1>1, Earlier DEF Matches, KnownListed, PinHeld, Still, Removing, Midway
<1>7. QED
      BY <1>4, <1>5, <1>6 DEF Matches

\* An edit draws the configuration as it is after the step.
LEMMA EditDraws ==
    ASSUME Typed, BuildsOK, cache \in ConfigRef, cache # None, cache' = cache,
           NEW config, NEW menu, NEW b, config = heap'[cache], b = buttons',
           menu = config.servers \cap known',
           Edit(cache, config, menu, b),
           config.message = heap[cache].message, config.building = heap[cache].building,
           config.draft = heap[cache].draft
    PROVE  Drawn'
<1> DEFINE m == config.message
           new == [message |-> m, draws |-> Draw(config, menu, b), last |-> TRUE]
<1>1. ASSUME incident' \subseteq {"unfinished", "recreated"} PROVE m # None
      BY <1>1 DEF Edit, Note
<1>2. m # None => config.draft = None
      BY DEF BuildsOK
<1>3. Widget(heap[cache], buttons)' = Draw(config, menu, b)
      BY DEF Widget, Menu, Draw
<1>4. ASSUME m # None PROVE Draws(m, Draw(config, menu, b))'
      <2>1. edits' = {[e EXCEPT !.last = @ /\ e.message # m] : e \in edits} \cup {new}
            BY <1>4 DEF Edit, updateServerStatusWidget
      <2>2. ASSUME NEW e \in edits', e.message = m, e.last PROVE e.draws = new.draws
            <3>1. \A f \in edits : f \in [message : Message, draws : Drawing, last : BOOLEAN]
                  BY TypedState
            <3>2. \A f \in edits : LET g == [f EXCEPT !.last = @ /\ f.message # m]
                                   IN  g.message = f.message /\ g.last = (f.last /\ f.message # m)
                  BY <3>1
            <3> HIDE DEF m, new
            <3>3. QED
                  BY <2>1, <2>2, <3>2
      <2>3. new \in edits' /\ new.message = m /\ new.last /\ new.draws = Draw(config, menu, b)
            BY <2>1
      <2> HIDE DEF m, new
      <2>4. QED
            BY <2>2, <2>3 DEF Draws
<1> HIDE DEF m
<1>5. QED
      BY <1>1, <1>2, <1>3, <1>4 DEF Drawn, m

\* Only the guild's object counts, and it is the one a handler works on.
LEMMA AtWork ==
    ASSUME Typed, ButtonsInv, PinInv, Calm,
           NEW h \in Handler, pc[h] \notin {"idle", "find"}, cfg[h] = cache
    PROVE  /\ cache \in ConfigRef /\ cache # None /\ heap[cache] \in ConfigType
           /\ doc \in DocType /\ doc # NoDocument
           /\ Midway(h) \/ ~Locked(cache) => \A k \in Handler \ {h} : ~Midway(k)
<1>1. cache \in ConfigRef /\ cache # None /\ heap[cache] \in ConfigType
      BY AtTyped, ServerListAssumption DEF ConfigRef
<1>2. doc # NoDocument /\ doc \in DocType
      BY <1>1, TypedState DEF PinInv, PinSaved
<1>3. Midway(h) \/ ~Locked(cache) => \A k \in Handler \ {h} : ~Midway(k)
      BY DEF ButtonsInv, LocksOK, Locked, Calm
<1>4. QED
      BY <1>1, <1>2, <1>3

LEMMA AddServerMatches ==
    ASSUME Typed, ServersInv, ButtonsInv, PinInv, IdsUsed, Matches,
           NEW h \in Handler, AddServer(h)
    PROVE  Matches'
<1> SUFFICES ASSUME Calm' PROVE Matches'
    BY Earlier, HandlerEffect
    DEF Matches, DocsKnown, ButtonsSaved, DocSaved, Drawn, KnownListed, PinHeld
<1> DEFINE s == op[h].server
           config == [heap[cache] EXCEPT !.servers = @ \cup {s}]
<1>1. /\ pc[h] = "found" /\ op[h].kind = "addServer" /\ s \in Server
      /\ cfg[h] = cache /\ Calm /\ incident \subseteq incident'
      BY AtTyped, RequestFields, HandlerEffect DEF AddServer, At
<1>2. /\ cache \in ConfigRef /\ cache # None /\ heap[cache] \in ConfigType
      /\ doc \in DocType /\ doc # NoDocument
      BY <1>1, AtWork
<1>3. s \notin used
      BY <1>1 DEF ServersInv, IdsNew
<1>4. /\ config \in ConfigType /\ config.servers = heap[cache].servers \cup {s}
      /\ config.pin = heap[cache].pin /\ config.active = heap[cache].active
      /\ config.building = heap[cache].building /\ config.draft = heap[cache].draft
      /\ config.agent = heap[cache].agent /\ config.message = heap[cache].message
      <2> HIDE DEF s
      <2>1. QED
            BY <1>1, <1>2 DEF ConfigType
<1>5. /\ known' = known \cup {s} /\ heap' = [heap EXCEPT ![cache] = config]
      /\ doc' = updateServerIDs(config) /\ Goto(h, "save")
      /\ UNCHANGED <<op, cfg, gone, cache, buttons, docs>>
      BY <1>1 DEF AddServer, Fail, Note, Calm, frameVars
<1>6. heap'[cache] = config
      BY <1>2, <1>5, TypedState
<1>7. \A k \in Handler : pc'[k] = IF k = h THEN "save" ELSE pc[k]
      BY <1>5, TypedState DEF Goto
<1>8. Saving' = Saving \cup {s}
      BY <1>1, <1>5, <1>7 DEF Saving
<1> HIDE DEF s, config
<1>9. DocsKnown'
      BY <1>1, <1>5, <1>8 DEF Matches, DocsKnown
<1>10. ButtonsSaved'
      <2>1. s \notin DOMAIN docs /\ buttons[s] = {}
            BY <1>1, <1>3 DEF IdsUsed
      <2>2. QED
            BY <1>1, <1>5, <1>8, <2>1 DEF Matches, ButtonsSaved
<1>11. DocSaved'
      <2>1. doc'.servers = config.servers /\ doc'.agent = doc.agent /\ doc'.message = doc.message
            BY <1>2, <1>4, <1>5, UpdatedFields
      <2>2. QED
            BY <1>1, <1>2, <1>4, <1>5, <1>6, <2>1 DEF Matches, DocSaved
<1>13. Drawn'
      BY <1>1, <1>5, <1>7 DEF Drawn, Locked, Midway
<1>14. KnownListed'
      BY <1>1, <1>2, <1>4, <1>5, <1>6, <1>7, Earlier DEF Matches, KnownListed, Removing
<1>15. PinHeld'
      BY <1>1, <1>2, <1>4, <1>5, <1>6, <1>7, Earlier DEF Matches, PinHeld
<1>16. QED
      BY <1>9, <1>10, <1>11, <1>13, <1>14, <1>15 DEF Matches

LEMMA SaveServerMatches ==
    ASSUME Typed, ServersInv, ButtonsInv, PinInv, BuildsOK, IdsUsed, Matches,
           NEW h \in Handler, SaveServer(h)
    PROVE  Matches'
<1> SUFFICES ASSUME Calm' PROVE Matches'
    BY Earlier, HandlerEffect
    DEF Matches, DocsKnown, ButtonsSaved, DocSaved, Drawn, KnownListed, PinHeld
<1> DEFINE s == op[h].server
<1>1. /\ pc[h] = "save" /\ cfg[h] = cache /\ Calm /\ incident \subseteq incident'
      BY HandlerEffect DEF SaveServer
<1>2. cache \in ConfigRef /\ cache # None /\ heap[cache] \in ConfigType
      BY <1>1, AtWork
<1>3. s \in Saving
      BY <1>1 DEF Saving
<1>4. /\ docs' = [t \in DOMAIN docs \cup {s} |-> IF t = s THEN {} ELSE docs[t]]
      /\ Edit(cache, heap[cache], Menu(heap[cache]), buttons)
      /\ Finish(h)
      /\ UNCHANGED <<heap, cache, known, buttons, doc>>
      BY <1>1 DEF SaveServer, Fail, Note, Calm, memoryVars
<1>5. Saving' \subseteq Saving
      BY <1>4, FinishEffect DEF Saving
<1> HIDE DEF s
<1>6. DocsKnown'
      BY <1>1, <1>3, <1>4, <1>5 DEF Matches, DocsKnown
<1>7. ButtonsSaved'
      BY <1>1, <1>3, <1>4, <1>5 DEF Matches, ButtonsSaved
<1>8. DocSaved'
      BY <1>1, <1>4, Earlier DEF Matches, DocSaved
<1>9. Drawn'
      BY <1>2, <1>4, EditDraws DEF Matches, Menu
<1>10. KnownListed' /\ PinHeld'
      BY <1>1, <1>4, FinishEffect, Earlier DEF Matches, KnownListed, PinHeld, Removing
<1>11. QED
      BY <1>6, <1>7, <1>8, <1>9, <1>10 DEF Matches

\* A removal takes the lock before it leaves the list and the pin apart.
LEMMA RemoveServersMatches ==
    ASSUME Typed, ServersInv, ButtonsInv, PinInv, IdsUsed, Matches,
           NEW h \in Handler, RemoveServers(h)
    PROVE  Matches'
<1> SUFFICES ASSUME Calm' PROVE Matches'
    BY Earlier, HandlerEffect
    DEF Matches, DocsKnown, ButtonsSaved, DocSaved, Drawn, KnownListed, PinHeld
<1> DEFINE listed == op[h].servers \cap heap[cache].servers
           config == Unlisted(heap[cache], listed)
<1>1. /\ pc[h] = "found" /\ cfg[h] = cache /\ Calm /\ incident \subseteq incident'
      BY HandlerEffect DEF RemoveServers, At
<1>2. /\ cache \in ConfigRef /\ cache # None /\ heap[cache] \in ConfigType
      /\ doc \in DocType /\ doc # NoDocument
      BY <1>1, AtWork
<1>3. /\ config \in ConfigType /\ config.servers = heap[cache].servers \ listed
      /\ config.pin = heap[cache].pin /\ config.active = heap[cache].active
      /\ config.building = heap[cache].building /\ config.draft = heap[cache].draft
      /\ config.agent = heap[cache].agent /\ config.message = heap[cache].message
      <2> HIDE DEF listed
      <2>1. QED
            BY <1>2 DEF Unlisted, ConfigType
<1>4. /\ heap' = [heap EXCEPT ![cache] = config]
      /\ doc' = updateServerIDs(config)
      /\ gone' = [gone EXCEPT ![h] = listed] /\ Goto(h, "unpin")
      /\ UNCHANGED <<op, cfg, cache, known, buttons, docs>>
      BY <1>1 DEF RemoveServers, Fail, Note, Calm
<1> HIDE DEF listed, config
<1>5. heap'[cache] = config
      BY <1>2, <1>4, TypedState
<1>6. \A k \in Handler : /\ pc'[k] = IF k = h THEN "unpin" ELSE pc[k]
                         /\ gone'[k] = IF k = h THEN listed ELSE gone[k]
      BY <1>4, TypedState DEF Goto
<1>7. Saving' = Saving
      BY <1>1, <1>4, <1>6 DEF Saving
<1>8. DocsKnown' /\ ButtonsSaved'
      BY <1>1, <1>4, <1>7 DEF Matches, DocsKnown, ButtonsSaved
<1>9. DocSaved'
      <2>1. doc'.servers = config.servers /\ doc'.agent = doc.agent /\ doc'.message = doc.message
            BY <1>2, <1>3, <1>4, UpdatedFields
      <2>2. QED
            BY <1>1, <1>2, <1>3, <1>4, <1>5, <2>1 DEF Matches, DocSaved
<1>11. Drawn'
      BY <1>1, <1>4, <1>6 DEF Drawn, Locked, Midway
<1>12. KnownListed'
      <2>1. SUFFICES ASSUME Tame', NEW t \in known
                     PROVE  t \in config.servers \/ \E k \in Handler : Removing(k)' /\ t \in gone'[k]
            BY <1>4, <1>5 DEF KnownListed
      <2>2. Removing(h)' /\ gone'[h] = listed
            BY <1>6 DEF Removing
      <2>3. CASE t \in heap[cache].servers
            BY <1>3, <2>2, <2>3
      <2>4. CASE \E k \in Handler : Removing(k) /\ t \in gone[k]
            BY <1>1, <1>6, <2>4 DEF Removing
      <2>5. QED
            BY <1>1, <1>2, <2>1, <2>3, <2>4, Earlier DEF Matches, KnownListed
<1>13. PinHeld'
      <2>1. SUFFICES ASSUME Tame', config.pin # None
                     PROVE  \/ config.pin \in config.servers
                            \/ \E k \in Handler : /\ pc'[k] = "unpin" /\ cfg[k] = cache
                                                  /\ config.pin \in gone'[k]
            BY <1>4, <1>5 DEF PinHeld
      <2>2. CASE config.pin \in heap[cache].servers
            BY <1>1, <1>3, <1>6, <2>2
      <2>3. CASE \E k \in Handler : pc[k] = "unpin" /\ cfg[k] = cache /\ config.pin \in gone[k]
            BY <1>1, <1>6, <2>3
      <2>4. QED
            BY <1>1, <1>2, <1>3, <2>1, <2>2, <2>3, Earlier DEF Matches, PinHeld
<1>14. QED
      BY <1>8, <1>9, <1>11, <1>12, <1>13 DEF Matches

LEMMA UnpinMatches ==
    ASSUME Typed, ServersInv, ButtonsInv, PinInv, IdsUsed, Matches,
           NEW h \in Handler, Unpin(h)
    PROVE  Matches'
<1> SUFFICES ASSUME Calm' PROVE Matches'
    BY Earlier, HandlerEffect
    DEF Matches, DocsKnown, ButtonsSaved, DocSaved, Drawn, KnownListed, PinHeld
<1> DEFINE config == Unpinned(heap[cache], gone[h])
<1>1. /\ pc[h] = "unpin" /\ cfg[h] = cache /\ Calm /\ incident \subseteq incident'
      BY HandlerEffect DEF Unpin
<1>2. /\ cache \in ConfigRef /\ cache # None /\ heap[cache] \in ConfigType
      /\ doc \in DocType /\ doc # NoDocument /\ gone[h] \subseteq Server
      BY <1>1, AtWork, AtTyped
<1>3. /\ config \in ConfigType /\ config.servers = heap[cache].servers
      /\ config.building = heap[cache].building /\ config.draft = heap[cache].draft
      /\ config.agent = heap[cache].agent /\ config.message = heap[cache].message
      /\ config.pin \notin gone[h]
      /\ config.pin = heap[cache].pin \/ config.pin = None
      BY <1>2, ServerListAssumption DEF Unpinned, ConfigType
<1>4. /\ heap' = [heap EXCEPT ![cache] = config]
      /\ doc' = IF config = heap[cache] THEN doc ELSE updateStatusWidget(config)
      /\ config # heap[cache] /\ config.building /\ config.agent => "unfinished" \in incident'
      /\ Goto(h, "delete")
      /\ UNCHANGED <<op, cfg, gone, cache, known, buttons, docs>>
      BY <1>1 DEF Unpin, Fail, Note, Calm, frameVars
<1> HIDE DEF config
<1>5. heap'[cache] = config
      BY <1>2, <1>4, TypedState
<1>6. \A k \in Handler : pc'[k] = IF k = h THEN "delete" ELSE pc[k]
      BY <1>4, TypedState DEF Goto
<1>7. Saving' = Saving
      BY <1>1, <1>4, <1>6 DEF Saving
<1>8. DocsKnown' /\ ButtonsSaved'
      BY <1>1, <1>4, <1>7 DEF Matches, DocsKnown, ButtonsSaved
<1>9. DocSaved'
      <2>1. CASE config = heap[cache]
            BY <1>1, <1>4, <1>5, <2>1 DEF Matches, DocSaved
      <2>2. CASE config # heap[cache]
            <3>1. /\ doc'.servers = doc.servers /\ doc'.agent = config.agent
                  /\ doc'.message = config.message
                  BY <1>2, <1>3, <1>4, <2>2, UpdatedFields
            <3>2. doc.servers = config.servers
                  BY <1>1, <1>2, <1>3 DEF Matches, DocSaved
            <3>3. config.agent \in BOOLEAN /\ config.building \in BOOLEAN
                  BY <1>3 DEF ConfigType
            <3>4. \/ config.agent = (config.agent /\ ~config.building)
                  \/ "unfinished" \in incident' /\ config.agent = TRUE
                  BY <1>4, <2>2, <3>3
            <3>5. QED
                  BY <1>4, <1>5, <3>1, <3>2, <3>4 DEF DocSaved
      <2>3. QED
            BY <2>1, <2>2
<1>11. Drawn'
      BY <1>1, <1>4, <1>6 DEF Drawn, Locked, Midway
<1>12. KnownListed'
      BY <1>1, <1>2, <1>3, <1>4, <1>5, <1>6, Earlier DEF Matches, KnownListed, Removing
<1>13. PinHeld'
      BY <1>1, <1>2, <1>3, <1>4, <1>5, <1>6, Earlier DEF Matches, PinHeld
<1>14. QED
      BY <1>8, <1>9, <1>11, <1>12, <1>13 DEF Matches

LEMMA DeleteServersMatches ==
    ASSUME Typed, ServersInv, ButtonsInv, PinInv, BuildsOK, IdsUsed, Matches,
           NEW h \in Handler, DeleteServers(h)
    PROVE  Matches'
<1> SUFFICES ASSUME Calm' PROVE Matches'
    BY Earlier, HandlerEffect
    DEF Matches, DocsKnown, ButtonsSaved, DocSaved, Drawn, KnownListed, PinHeld
<1>1. /\ pc[h] = "delete" /\ cfg[h] = cache /\ Calm /\ incident \subseteq incident'
      BY HandlerEffect DEF DeleteServers
<1>2. /\ cache \in ConfigRef /\ cache # None /\ \A k \in Handler \ {h} : ~Midway(k)
      BY <1>1, AtWork DEF Midway
<1>3. /\ docs' = [s \in DOMAIN docs \ gone[h] |-> docs[s]]
      /\ known' = known \ gone[h]
      /\ Edit(cache, heap[cache], heap[cache].servers \cap known', buttons)
      /\ Finish(h) /\ UNCHANGED <<heap, cache, buttons, doc>>
      BY <1>1 DEF DeleteServers, Fail, Note, Calm
<1>4. Saving' = {}
      BY <1>2, <1>3, FinishEffect DEF Saving, Midway
<1>5. DocsKnown' /\ ButtonsSaved'
      BY <1>1, <1>3, <1>4 DEF Matches, DocsKnown, ButtonsSaved
<1>6. DocSaved'
      BY <1>1, <1>3, Earlier DEF Matches, DocSaved
<1>7. Drawn'
      BY <1>2, <1>3, EditDraws DEF Matches
<1>8. KnownListed'
      BY <1>1, <1>2, <1>3, FinishEffect, Earlier DEF Matches, KnownListed, Removing, Midway
<1>9. PinHeld'
      BY <1>1, <1>3, FinishEffect, Earlier DEF Matches, PinHeld
<1>10. QED
      BY <1>5, <1>6, <1>7, <1>8, <1>9 DEF Matches

\* A server that can be pinned is stored, and one that is stored is listed.
LEMMA PinMatches ==
    ASSUME Typed, ServersInv, ButtonsInv, PinInv, BuildsOK, IdsUsed, Matches,
           NEW h \in Handler, Pin(h)
    PROVE  Matches'
<1> SUFFICES ASSUME Calm' PROVE Matches'
    BY Earlier, HandlerEffect
    DEF Matches, DocsKnown, ButtonsSaved, DocSaved, Drawn, KnownListed, PinHeld
<1> DEFINE s == op[h].server
           config == [heap[cache] EXCEPT !.pin = s, !.active = s]
<1>1. /\ pc[h] = "found" /\ cfg[h] = cache /\ Calm /\ incident \subseteq incident'
      /\ ~Locked(cache) /\ s \in known /\ ~heap[cache].building
      BY HandlerEffect DEF Pin, At, Pinnable
<1>2. /\ cache \in ConfigRef /\ cache # None /\ heap[cache] \in ConfigType
      /\ doc \in DocType /\ doc # NoDocument /\ \A k \in Handler : ~Midway(k)
      BY <1>1, AtWork DEF Midway
<1>3. /\ config \in ConfigType /\ config.servers = heap[cache].servers
      /\ config.pin = s /\ config.active = s
      /\ config.building = heap[cache].building /\ config.draft = heap[cache].draft
      /\ config.agent = heap[cache].agent /\ config.message = heap[cache].message
      <2>1. s \in Server
            BY <1>1, TypedState
      <2> HIDE DEF s
      <2>2. QED
            BY <1>2, <2>1 DEF ConfigType
<1>4. /\ heap' = [heap EXCEPT ![cache] = config]
      /\ doc' = updateStatusWidget(config)
      /\ Edit(cache, config, Menu(config), buttons)
      /\ Finish(h) /\ UNCHANGED <<cache, known, buttons, docs>>
      BY <1>1 DEF Pin, Fail, Note, Calm
<1> HIDE DEF s, config
<1>5. heap'[cache] = config
      BY <1>2, <1>4, TypedState
<1>6. Saving' = Saving
      BY <1>1, <1>4, FinishEffect DEF Saving
<1>7. DocsKnown' /\ ButtonsSaved'
      BY <1>1, <1>4, <1>6 DEF Matches, DocsKnown, ButtonsSaved
<1>8. DocSaved'
      <2>1. /\ doc'.servers = doc.servers /\ doc'.agent = config.agent
            /\ doc'.message = config.message
            BY <1>2, <1>3, <1>4, UpdatedFields
      <2>2. config.agent = (config.agent /\ ~config.building)
            BY <1>1, <1>3 DEF ConfigType
      <2>3. QED
            BY <1>1, <1>2, <1>3, <1>4, <1>5, <2>1, <2>2 DEF Matches, DocSaved
<1>9. Drawn'
      BY <1>2, <1>3, <1>4, <1>5, EditDraws DEF Matches, Menu
<1>10. KnownListed'
      BY <1>1, <1>2, <1>3, <1>4, <1>5, Earlier DEF Matches, KnownListed, Removing, Midway
<1>11. PinHeld'
      <2>1. Tame' => s \in heap[cache].servers
            BY <1>1, <1>2, Earlier DEF Matches, KnownListed, Removing, Midway
      <2>2. QED
            BY <1>3, <1>4, <1>5, <2>1 DEF PinHeld
<1>12. QED
      BY <1>7, <1>8, <1>9, <1>10, <1>11 DEF Matches

\* No server is being saved while another handler changes its buttons.
LEMMA ButtonsMatches ==
    ASSUME Typed, ServersInv, ButtonsInv, PinInv, BuildsOK, IdsUsed, Matches,
           NEW h \in Handler, PushButton(h) \/ RemoveButtons(h)
    PROVE  Matches'
<1> SUFFICES ASSUME Calm' PROVE Matches'
    BY Earlier, HandlerEffect
    DEF Matches, DocsKnown, ButtonsSaved, DocSaved, Drawn, KnownListed, PinHeld
<1>1. /\ pc[h] \in {"push", "found"}
      /\ pc[h] = "found" => ~Locked(cache)
      /\ cfg[h] = cache /\ Calm /\ incident \subseteq incident'
      BY HandlerEffect DEF PushButton, RemoveButtons, At
<1>2. /\ cache \in ConfigRef /\ cache # None
      /\ \A k \in Handler : Midway(k) => k = h /\ pc[h] = "push"
      BY <1>1, AtWork DEF Midway
<1>3. PICK s, B : ChangeButtons(h, s, B)
      BY DEF PushButton, RemoveButtons
<1> DEFINE after == [buttons EXCEPT ![s] = B]
<1>4. /\ buttons' = after /\ docs' = updateCustomButtons(s, B)
      /\ Edit(cache, heap[cache], Menu(heap[cache]), after)
      /\ Finish(h) /\ UNCHANGED <<heap, cache, known, doc>>
      BY <1>1, <1>3 DEF ChangeButtons, Fail, Note, Calm
<1>5. Saving' = {}
      BY <1>2, <1>4, FinishEffect DEF Saving, Midway
<1>6. /\ DOMAIN docs' = DOMAIN docs
      /\ \A t \in DOMAIN docs : docs'[t] = IF t = s THEN B ELSE docs[t]
      BY <1>4, TypedState DEF updateCustomButtons
<1>7. \A t \in Server : buttons'[t] = IF t = s THEN B ELSE buttons[t]
      BY <1>4, TypedState
<1> HIDE DEF after
<1>8. DocsKnown'
      BY <1>1, <1>4, <1>5, <1>6 DEF Matches, DocsKnown
<1>9. ButtonsSaved'
      <2>1. known \subseteq Server
            BY TypedState
      <2>2. QED
            BY <1>1, <1>4, <1>5, <1>6, <1>7, <2>1 DEF Matches, ButtonsSaved
<1>10. DocSaved'
      BY <1>1, <1>4, Earlier DEF Matches, DocSaved
<1>11. Drawn'
      BY <1>2, <1>4, EditDraws DEF Matches, Menu
<1>12. KnownListed' /\ PinHeld'
      BY <1>1, <1>2, <1>4, FinishEffect, Earlier
      DEF Matches, KnownListed, PinHeld, Removing, Midway
<1>13. QED
      BY <1>8, <1>9, <1>10, <1>11, <1>12 DEF Matches

LEMMA HandleMatches ==
    ASSUME Typed, ServersInv, ButtonsInv, PinInv, BuildsOK, IdsUsed, Matches,
           NEW h \in Handler, Handle(h)
    PROVE  Matches'
BY StillSteps, StillMatches, AddServerMatches, SaveServerMatches, RemoveServersMatches,
   UnpinMatches, DeleteServersMatches, PinMatches, ButtonsMatches DEF Handle

LEMMA CreateMatches ==
    ASSUME Typed, Matches, NEW r \in Config, Create(r)
    PROVE  Matches'
<1>1. /\ r \in ConfigRef /\ heap' = [heap EXCEPT ![r] = [Blank EXCEPT !.building = TRUE]]
      /\ cache' = r /\ incident \subseteq incident'
      /\ known # {} => "recreated" \in incident'
      /\ doc' = getValue(heap'[r])
      /\ UNCHANGED <<pc, op, cfg, gone, known, buttons, docs>>
      BY DEF Create, ConfigRef, Note, handlerVars, frameVars
<1>2. heap'[r] = [Blank EXCEPT !.building = TRUE]
      BY <1>1, TypedState
<1>3. Saving' = Saving
      BY <1>1 DEF Saving
<1>4. DocsKnown' /\ ButtonsSaved'
      BY <1>1, <1>3, Earlier DEF Matches, DocsKnown, ButtonsSaved
<1>5. DocSaved'
      BY <1>1, <1>2 DEF DocSaved, getValue, Blank
<1>7. Drawn'
      BY <1>1, <1>2 DEF Drawn, Blank
<1>8. KnownListed'
      BY <1>1 DEF KnownListed, Tame
<1>9. PinHeld'
      BY <1>1, <1>2 DEF PinHeld, Blank
<1>10. QED
      BY <1>4, <1>5, <1>7, <1>8, <1>9 DEF Matches

\* A step of a build touches neither servers nor pin, and takes no lock.
LEMMA BuildMatches ==
    ASSUME Typed, PinInv, BuildsOK, MessagesUsed, Matches,
           \/ Rebuild \/ Draft \/ BuildFails
           \/ \E m \in Message : Publish(m)
    PROVE  Matches'
<1>1. /\ cache \in ConfigRef /\ cache # None /\ ~Locked(cache)
      /\ UNCHANGED <<pc, op, cfg, gone, cache, known, buttons, docs, incident>>
      BY TypedState DEF Rebuild, Draft, Publish, BuildFails, handlerVars, frameVars, databaseVars
<1>2. heap[cache] \in ConfigType /\ heap \in [ConfigRef -> ConfigType]
      BY <1>1, TypedState
<1>3. /\ heap'[cache].servers = heap[cache].servers
      /\ heap'[cache].pin = heap[cache].pin
      /\ heap'[cache].active = heap[cache].active
      BY <1>1, BuildSteps, BuildingTyped
<1>4. Saving' = Saving /\ Calm' = Calm
      BY <1>1 DEF Saving, Calm
<1>5. DocsKnown' /\ ButtonsSaved'
      BY <1>1, <1>4 DEF Matches, DocsKnown, ButtonsSaved
<1>6. KnownListed' /\ PinHeld'
      BY <1>1, <1>3 DEF Matches, KnownListed, PinHeld, Removing, Tame
<1>7. heap'[cache] \in ConfigType
      BY <1>1, BuildSteps, BuildingTyped DEF Typed, TypeOK, ConfigType
<1>8. Calm => doc # NoDocument
      BY <1>1 DEF PinInv, PinSaved
<1>9. Widget(heap[cache], buttons)' = Widget(heap[cache], buttons)
      BY <1>1, <1>3 DEF Widget, Draw, Menu
<1>10. CASE Rebuild
      <2>1. /\ heap'[cache].message = None /\ heap'[cache].draft = None
            /\ heap'[cache].agent = FALSE
            BY <1>1, <1>2, <1>10 DEF Rebuild, ConfigType
      <2>2. doc' = updateStatusWidget(heap'[cache])
            BY <1>10 DEF Rebuild
      <2>3. DocSaved'
            BY <1>1, <1>3, <1>4, <1>7, <1>8, <2>1, <2>2, UpdatedFields DEF Matches, DocSaved
      <2>4. Drawn'
            BY <1>1, <2>1, <2>2 DEF Drawn
      <2>5. QED
            BY <1>5, <1>6, <2>3, <2>4 DEF Matches
<1>11. CASE Draft
      <2>1. /\ heap'[cache].message = heap[cache].message
            /\ heap'[cache].draft = Widget(heap[cache], buttons)
            /\ heap'[cache].building = heap[cache].building
            /\ heap[cache].building
            BY <1>1, <1>2, <1>11 DEF Draft, ConfigType
      <2>2. doc' = doc
            BY <1>11 DEF Draft, databaseVars
      <2>3. DocSaved'
            BY <1>1, <1>3, <1>4, <2>1, <2>2 DEF Matches, DocSaved
      <2>5. heap[cache].message = None
            BY <1>1, <2>1 DEF BuildsOK
      <2>6. Drawn'
            BY <1>1, <1>9, <2>1, <2>5 DEF Drawn
      <2>7. QED
            BY <1>5, <1>6, <2>3, <2>6 DEF Matches
<1>12. ASSUME NEW m \in Message, Publish(m) PROVE Matches'
      <2>1. /\ heap'[cache].message = m /\ heap'[cache].draft = None
            /\ ~heap'[cache].building /\ heap'[cache].agent = heap[cache].agent
            /\ heap[cache].draft # None
            BY <1>1, <1>2, <1>12 DEF Publish, ConfigType
      <2>2. /\ doc' = updateStatusWidget(heap'[cache]) /\ m \notin used /\ edits' = edits
            /\ shown'[m] = heap[cache].draft
            BY <1>12, TypedState DEF Publish
      <2>3. heap'[cache].agent = (heap'[cache].agent /\ ~heap'[cache].building)
            BY <1>7, <2>1 DEF ConfigType
      <2>4. DocSaved'
            BY <1>1, <1>3, <1>4, <1>7, <1>8, <2>2, <2>3, UpdatedFields DEF Matches, DocSaved
      <2>5. \A e \in edits' : e.message # m
            BY <2>2 DEF MessagesUsed
      <2>6. Drawn'
            BY <1>1, <1>9, <2>1, <2>2, <2>5 DEF Matches, Drawn, Draws
      <2>7. QED
            BY <1>5, <1>6, <2>4, <2>6 DEF Matches
<1>13. CASE BuildFails
      <2>1. /\ heap'[cache].message = heap[cache].message /\ heap'[cache].draft = None
            /\ heap'[cache].agent = FALSE /\ heap[cache].building
            BY <1>1, <1>2, <1>13 DEF BuildFails, ConfigType
      <2>2. doc' = doc
            BY <1>13 DEF BuildFails, databaseVars
      <2>3. DocSaved'
            BY <1>1, <1>3, <1>4, <2>1, <2>2 DEF Matches, DocSaved
      <2>4. heap[cache].message = None
            BY <1>1, <2>1 DEF BuildsOK
      <2>5. Drawn'
            BY <1>1, <1>4, <2>1, <2>2, <2>4 DEF Matches, Drawn
      <2>6. QED
            BY <1>5, <1>6, <2>3, <2>5 DEF Matches
<1>14. QED
      BY <1>10, <1>11, <1>12, <1>13

LEMMA EraseMatches ==
    ASSUME Typed, Matches, Erase
    PROVE  Matches'
<1>1. /\ cache' = None
      /\ UNCHANGED <<pc, op, known, buttons, docs, incident>>
      BY DEF Erase, handlerVars, frameVars
<1>2. Saving' = Saving /\ Calm' = Calm
      BY <1>1 DEF Saving, Calm
<1>3. QED
      BY <1>1, <1>2
      DEF Matches, DocsKnown, ButtonsSaved, DocSaved, Drawn, KnownListed, PinHeld

\* A start of the process finds in the collections what memory had.
LEMMA RestartMatches ==
    ASSUME Typed, ServersInv, PinInv, Matches, Restart
    PROVE  Matches'
<1> DEFINE loaded == [servers |-> doc.servers, pin |-> doc.pin,
                      active |-> LoadedActive(doc.pin), building |-> FALSE,
                      draft |-> None, agent |-> doc.agent, message |-> doc.message]
           drawing == [pin |-> loaded.pin, menu |-> loaded.servers \cap known',
                       buttons |-> IF loaded.active = None THEN {}
                                   ELSE buttons'[loaded.active]]
<1>1. /\ Boot \in ConfigRef /\ Boot # None
      /\ UNCHANGED <<doc, docs, discordVars>> /\ known' = DOMAIN docs
      /\ \A s \in Server : buttons'[s] = IF s \in DOMAIN docs THEN docs[s] ELSE {}
      /\ \A h \in Handler : pc'[h] = "idle"
      /\ cache' = IF doc = NoDocument THEN None ELSE Boot
      BY ServerListAssumption DEF Restart, ConfigRef, databaseVars
<1>2. doc # NoDocument => cache' = Boot /\ heap'[Boot] = loaded
      BY <1>1 DEF Restart
<1>3. /\ incident \subseteq incident'
      /\ "interrupted" \notin incident' => \A h \in Handler : ~Midway(h)
      BY DEF Restart, Note
<1> HIDE DEF loaded
<1>4. /\ loaded.servers = doc.servers /\ loaded.pin = doc.pin
      /\ loaded.active = LoadedActive(doc.pin) /\ loaded.building = FALSE
      /\ loaded.draft = None /\ loaded.agent = doc.agent /\ loaded.message = doc.message
      BY DEF loaded
<1>5. Saving' = {}
      BY <1>1 DEF Saving
<1>6. DocsKnown'
      BY <1>1, <1>5 DEF DocsKnown
<1>7. ButtonsSaved'
      BY <1>1, <1>5, TypedState DEF ButtonsSaved
<1>8. DocSaved'
      <2>1. cache' # None => doc # NoDocument /\ doc \in DocType
            BY <1>1, TypedState
      <2>2. cache' # None => doc.agent \in BOOLEAN
            BY <2>1 DEF DocType
      <2>3. QED
            BY <1>1, <1>2, <1>4, <2>1, <2>2 DEF DocSaved
<1>9. ASSUME Calm' 
      PROVE  /\ Calm
             /\ cache = None <=> doc = NoDocument
             /\ cache # None => /\ doc.servers = heap[cache].servers
                                /\ doc.message = heap[cache].message
                                /\ doc.pin = heap[cache].pin
      BY <1>3, <1>9, Earlier DEF PinInv, PinSaved, Matches, DocSaved
<1>11. Drawn'
      <2>1. SUFFICES ASSUME incident' \subseteq {"unfinished", "recreated"},
                            cache' # None, loaded.message # None
                     PROVE  Draws(loaded.message, drawing)
            <3>1. cache' # None => /\ cache' = Boot /\ heap'[cache'] = loaded
                                   /\ Widget(heap[cache], buttons)' = drawing
                  BY <1>1, <1>2 DEF Widget, Draw, Menu
            <3>2. QED
                  BY <1>1, <1>4, <3>1 DEF Drawn, Draws
      <2>2. /\ incident \subseteq {"unfinished", "recreated"} /\ Calm' /\ Calm
            /\ \A h \in Handler : ~Midway(h)
            BY <1>3, <2>1, Earlier
      <2>3. doc # NoDocument /\ doc \in DocType /\ cache # None /\ cache \in ConfigRef
            BY <1>1, <1>9, <2>1, <2>2, TypedState
      <2>4. Draws(loaded.message, Widget(heap[cache], buttons))
            BY <1>4, <1>9, <2>1, <2>2, <2>3 DEF Matches, Drawn, Locked
      <2>5. /\ doc.servers \subseteq DOMAIN docs
            /\ heap[cache].servers \subseteq known
            <3>1. Saving = {}
                  BY <2>2 DEF Saving, Midway
            <3>2. QED
                  BY <2>2, <2>3, <3>1 DEF ServersInv, DocumentsOK, ListedStored
      <2>6. loaded.servers \cap known' = Menu(heap[cache])
            BY <1>1, <1>4, <1>9, <2>2, <2>3, <2>5 DEF Menu
      <2>7. heap[cache].active = doc.pin
            BY <1>9, <2>2, <2>3 DEF PinInv, PinResolved
      <2>8. loaded.active = doc.pin /\ doc.pin \in DOMAIN docs \cup {None}
            BY <1>4, <2>2, <2>3, TypedState, ServerListAssumption
            DEF PinInv, PinStored, LoadedActive
      <2>9. doc.pin \in DOMAIN docs => buttons'[doc.pin] = buttons[doc.pin]
            BY <1>1, <2>2, TypedState DEF Matches, DocsKnown, ButtonsSaved
      <2>10. QED
            BY <1>4, <1>9, <2>2, <2>3, <2>4, <2>6, <2>7, <2>8, <2>9 DEF Widget, Draw
<1>12. ASSUME Tame'
       PROVE  /\ Tame /\ Calm' /\ Calm /\ \A h \in Handler : ~Midway(h)
       BY <1>3, <1>12, Earlier DEF Tame
<1>13. KnownListed'
      <2>1. SUFFICES ASSUME Tame', cache' # None PROVE DOMAIN docs \subseteq loaded.servers
            BY <1>1, <1>2 DEF KnownListed
      <2>2. cache # None
            BY <1>1, <1>9, <1>12, <2>1
      <2>3. known \subseteq heap[cache].servers
            BY <1>12, <2>1, <2>2 DEF Matches, KnownListed, Removing, Midway
      <2>4. DOMAIN docs \subseteq known
            BY <1>12, <2>1 DEF Matches, DocsKnown
      <2>5. QED
            BY <1>4, <1>9, <1>12, <2>1, <2>2, <2>3, <2>4
<1>14. PinHeld'
      <2>1. SUFFICES ASSUME Tame', cache' # None, doc.pin # None PROVE doc.pin \in doc.servers
            BY <1>1, <1>2, <1>4 DEF PinHeld
      <2>2. cache # None
            BY <1>1, <1>9, <1>12, <2>1
      <2>3. QED
            BY <1>9, <1>12, <2>1, <2>2 DEF Matches, PinHeld, Midway
<1>15. QED
      BY <1>6, <1>7, <1>8, <1>11, <1>13, <1>14 DEF Matches

\* Whatever Discord does with the edits on their way, and with the widget.
LEMMA DiscordDraws ==
    ASSUME Typed, NEW m \in Message, NEW drawing, Draws(m, drawing),
           \/ \E n \in Message : Deleted(n)
           \/ \E e \in edits : Apply(e) \/ Refuse(e)
    PROVE  Draws(m, drawing)'
<1>1. /\ edits \subseteq [message : Message, draws : Drawing, last : BOOLEAN]
      /\ shown \in [Message -> Drawing \cup {None}]
      BY TypedState
<1>2. CASE \E n \in Message : Deleted(n)
      BY <1>1, <1>2 DEF Deleted, Draws
<1>3. ASSUME NEW e \in edits, Apply(e) PROVE Draws(m, drawing)'
      <2>1. CASE e.message # m
            BY <1>1, <1>3, <2>1 DEF Apply, Draws
      <2>2. CASE e.message = m /\ e.last
            BY <1>1, <1>3, <2>2 DEF Apply, Draws
      <2>3. CASE e.message = m /\ ~e.last
            BY <1>1, <1>3, <2>3 DEF Apply, Draws
      <2>4. QED
            BY <1>1, <2>1, <2>2, <2>3
<1>4. ASSUME NEW e \in edits, Refuse(e) PROVE Draws(m, drawing)'
      <2>1. CASE e.message # m
            BY <1>1, <1>4, <2>1 DEF Refuse, Draws
      <2>2. CASE e.message = m /\ e.last
            BY <1>1, <1>4, <2>2 DEF Refuse, Draws
      <2>3. CASE e.message = m /\ ~e.last
            BY <1>1, <1>4, <2>3 DEF Refuse, Draws
      <2>4. QED
            BY <1>1, <2>1, <2>2, <2>3
<1>5. QED
      BY <1>2, <1>3, <1>4

LEMMA ElsewhereMatches ==
    ASSUME Typed, Matches,
           \/ UNCHANGED vars
           \/ \E m \in Message : Deleted(m)
           \/ \E e \in edits : Apply(e) \/ Refuse(e)
    PROVE  Matches'
<1>1. Elsewhere
      BY ElsewhereSteps
<1>2. Saving' = Saving
      BY <1>1 DEF Elsewhere, handlerVars, frameVars, Saving
<1>3. DocsKnown' /\ ButtonsSaved' /\ DocSaved' /\ KnownListed' /\ PinHeld'
      BY <1>1, <1>2
      DEF Elsewhere, handlerVars, frameVars, memoryVars, databaseVars, Matches, DocsKnown,
          ButtonsSaved, DocSaved, KnownListed, PinHeld, Calm, Tame, Removing
<1>4. Drawn'
      <2>1. /\ UNCHANGED <<heap, cache, known, buttons, incident>>
            /\ Locked(cache)' = Locked(cache)
            /\ Widget(heap[cache], buttons)' = Widget(heap[cache], buttons)
            BY <1>1
            DEF Elsewhere, handlerVars, frameVars, memoryVars, Locked, Midway, Widget, Draw, Menu
      <2>2. cache # None => heap[cache].message \in Message \cup {None}
            BY TypedState DEF ConfigType
      <2>3. ASSUME NEW m \in Message, NEW drawing, Draws(m, drawing) PROVE Draws(m, drawing)'
            BY <2>3, DiscordDraws DEF Draws, vars
      <2>4. QED
            BY <2>1, <2>2, <2>3 DEF Matches, Drawn
<1>5. QED
      BY <1>3, <1>4 DEF Matches

LEMMA NextMatches ==
    ASSUME Typed, ServersInv, ButtonsInv, PinInv, BuildsOK, IdsUsed, MessagesUsed, Matches,
           [Next]_vars
    PROVE  Matches'
<1>1. ASSUME NEW h \in Handler, NEW q \in Request, Submit(h, q) PROVE Matches'
      BY <1>1, StillSteps, StillMatches
<1>2. QED
      BY <1>1, HandleMatches, CreateMatches, BuildMatches, EraseMatches, RestartMatches,
         ElsewhereMatches DEF Next

ListInv ==
    /\ Typed /\ ServersInv /\ ButtonsInv /\ PinInv /\ BuildsOK /\ IdsUsed /\ MessagesUsed
    /\ Matches

LEMMA InitLists == Init => ListInv
<1> SUFFICES ASSUME Init PROVE ListInv
    OBVIOUS
<1>1. /\ \A h \in Handler : pc[h] = "idle"
      /\ \A s \in Server : buttons[s] = {}
      /\ \A r \in ConfigRef : heap[r] = Blank
      /\ known = {} /\ DOMAIN docs = {} /\ cache = None /\ edits = {} /\ doc = NoDocument
      BY DEF Init
<1>2. Saving = {}
      BY <1>1 DEF Saving
<1>3. BuildsOK /\ IdsUsed /\ MessagesUsed
      BY <1>1 DEF BuildsOK, IdsUsed, MessagesUsed, Blank
<1>4. Matches
      BY <1>1, <1>2
      DEF Matches, DocsKnown, ButtonsSaved, DocSaved, Drawn, KnownListed, PinHeld
<1>5. QED
      BY <1>3, <1>4, InitTyped, InitServers, InitButtons, InitPins DEF ListInv

LEMMA NextLists == ListInv /\ [Next]_vars => ListInv'
BY NextTyped, NextServers, NextButtons, NextPins, NextBuilds, NextUsed,
   NextMessages, NextMatches DEF ListInv

LEMMA ListsInvariant == Spec => []ListInv
BY InitLists, NextLists, PTL DEF Spec

\* A handler that removes servers has the lock from when it cuts the list to when the
\* pin is off, so that a pinned server is listed whenever the lock is free.
THEOREM PinnedServersListed == Spec => []PinListed
<1>1. ListInv => PinListed
      BY DEF ListInv, Matches, PinHeld, PinListed, Tame, Locked, Midway
<1>2. QED
      BY <1>1, ListsInvariant, PTL

\* Whenever the lock is free the two collections say what memory says of the guild,
\* also after the process ended at any point of any handler.
THEOREM CollectionsMatchMemory == Spec => []SavedMatchesMemory
<1>1. ASSUME ListInv PROVE SavedMatchesMemory
      <2>1. SUFFICES ASSUME Calm
                     PROVE  /\ \A s \in known \cap DOMAIN docs : docs[s] = buttons[s]
                            /\ cache # None /\ ~Locked(cache) =>
                                  /\ \/ doc = Saved(heap[cache])
                                     \/ "unfinished" \in incident
                                        /\ doc = [Saved(heap[cache]) EXCEPT !.agent = TRUE]
                                  /\ "interrupted" \notin incident =>
                                        heap[cache].servers \subseteq DOMAIN docs
            BY DEF SavedMatchesMemory, Calm
      <2>2. ASSUME cache # None
            PROVE  \/ doc = Saved(heap[cache])
                   \/ "unfinished" \in incident
                      /\ doc = [Saved(heap[cache]) EXCEPT !.agent = TRUE]
            <3> DEFINE config == heap[cache]
            <3>1. cache \in ConfigRef /\ config \in ConfigType
                  BY <1>1, <2>2, TypedState DEF ListInv
            <3>2. doc \in DocType /\ doc.pin = config.pin
                  BY <1>1, <2>1, <2>2, TypedState DEF ListInv, PinInv, PinSaved
            <3>3. /\ doc.servers = config.servers /\ doc.message = config.message
                  /\ \/ doc.agent = (config.agent /\ ~config.building)
                     \/ "unfinished" \in incident /\ doc.agent = TRUE
                  BY <1>1, <2>1, <2>2 DEF ListInv, Matches, DocSaved
            <3> HIDE DEF config
            <3>4. doc = [servers |-> config.servers, pin |-> config.pin, agent |-> doc.agent,
                         message |-> config.message]
                  BY <3>2, <3>3 DEF DocType
            <3>5. Saved(config) = [servers |-> config.servers, pin |-> config.pin,
                                   agent |-> (config.agent /\ ~config.building),
                                   message |-> config.message]
                  BY DEF Saved, getValue
            <3>6. CASE doc.agent = (config.agent /\ ~config.building)
                  BY <3>4, <3>5, <3>6 DEF config
            <3>7. CASE "unfinished" \in incident /\ doc.agent = TRUE
                  <4>1. /\ Saved(config) \in DocType
                        /\ Saved(config).servers = config.servers
                        /\ Saved(config).pin = config.pin
                        /\ Saved(config).message = config.message
                        BY <3>1, <3>5 DEF config, ConfigType, DocType
                  <4>2. doc = [Saved(config) EXCEPT !.agent = TRUE]
                        BY <3>2, <3>3, <3>7, <4>1 DEF DocType
                  <4>3. QED
                        BY <3>7, <4>2 DEF config
            <3>8. QED
                  BY <3>3, <3>6, <3>7
      <2>3. ASSUME cache # None, ~Locked(cache), "interrupted" \notin incident
            PROVE  heap[cache].servers \subseteq DOMAIN docs
            <3>1. Saving = {}
                  BY <1>1, <2>1, <2>3
                  DEF ListInv, ButtonsInv, LocksOK, Locked, Midway, Saving, Calm
            <3>2. cache \in ConfigRef
                  BY <1>1, <2>3, TypedState DEF ListInv
            <3>3. QED
                  BY <1>1, <2>1, <2>3, <3>1, <3>2 DEF ListInv, ServersInv, DocumentsOK, Calm
      <2>4. QED
            BY <1>1, <2>1, <2>2, <2>3 DEF ListInv, Matches, ButtonsSaved
<1>2. QED
      BY <1>1, ListsInvariant, PTL

\* Whenever the lock is free, a widget whose message is known shows the pinned
\* server, its buttons and the list as they are in memory, or an edit that makes it
\* do so is on its way, or Discord did not apply the newest edit last.
THEOREM WidgetShowsMemory == Spec => []WidgetCurrent
<1>1. ListInv => WidgetCurrent
      BY DEF ListInv, Matches, Drawn, Draws, WidgetCurrent, WillShow
<1>2. QED
      BY <1>1, ListsInvariant, PTL

-----------------------------------------------------------------------------
(***************************************************************************)
(* The buttons of every widget, edit and draft there is, those of earlier  *)
(* configurations included.  A drawing is never right for long: it only    *)
(* has to be explained, every button that it has and memory has not by a   *)
(* removal of that button or of its server.                                *)
(***************************************************************************)

Kept == incident \cap {"reloaded", "detached"} = {}

\* The drawings that a user sees, or may be going to see.
Around ==
    ({shown[m] : m \in Message} \cup {e.draws : e \in edits}
        \cup {heap[r].draft : r \in ConfigRef}) \ {None}

Works(d) ==
    \A b \in d.buttons :
        \/ d.pin \in known /\ b \in buttons[d.pin]
        \/ {d.pin, b} \cap removed # {}

DrawingsWork == Kept => \A d \in Around : Works(d)

GoneRemoved == \A h \in Handler : Removing(h) => gone[h] \subseteq removed

\* A pin is on a server that is stored, or was removed.
PinAround == Kept => \A r \in ConfigRef : heap[r].pin \in known \cup removed \cup {None}

WorksInv == GoneRemoved /\ PinAround /\ DrawingsWork

\* What memory loses was removed.
Accounted ==
    /\ removed \subseteq removed' /\ incident \subseteq incident'
    /\ known \ known' \subseteq removed'
    /\ \A s \in Server : buttons[s] \ buttons'[s] \subseteq removed'

LEMMA AccountedWorks ==
    ASSUME Typed, Accounted, NEW d \in Drawing, Works(d)
    PROVE  Works(d)'
<1>1. d.pin \in Server \cup {None} /\ known \subseteq Server
      BY TypedState DEF Drawing
<1>2. ASSUME NEW b \in d.buttons
      PROVE  \/ d.pin \in known' /\ b \in buttons'[d.pin]
             \/ {d.pin, b} \cap removed' # {}
      <2>1. CASE {d.pin, b} \cap removed # {}
            BY <2>1 DEF Accounted
      <2>2. CASE d.pin \in known /\ b \in buttons[d.pin]
            <3>1. d.pin \in Server
                  BY <1>1, <2>2
            <3>2. QED
                  BY <2>2, <3>1 DEF Accounted
      <2>3. QED
            BY <1>2, <2>1, <2>2 DEF Works
<1>3. QED
      BY <1>2 DEF Works

LEMMA AroundTyped ==
    ASSUME Typed
    PROVE  Around \subseteq Drawing
<1>1. \A m \in Message : shown[m] \in Drawing \cup {None}
      BY TypedState
<1>2. \A e \in edits : e.draws \in Drawing
      BY TypedState
<1>3. \A r \in ConfigRef : heap[r].draft \in Drawing \cup {None}
      BY TypedState DEF ConfigType
<1>4. QED
      BY <1>1, <1>2, <1>3 DEF Around

\* A widget that is drawn now has the buttons of its server.
LEMMA DrawnWorks ==
    ASSUME PinResolved', PinAround', Kept', NEW r \in ConfigRef, NEW menu, NEW d,
           d = Draw(heap'[r], menu, buttons')
    PROVE  Works(d)'
<1>1. heap'[r].pin = heap'[r].active /\ heap'[r].pin \in known' \cup removed' \cup {None}
      BY DEF PinResolved, PinAround, Kept
<1>2. /\ d.pin = heap'[r].pin
      /\ d.buttons = IF heap'[r].active = None THEN {} ELSE buttons'[heap'[r].active]
      BY DEF Draw
<1>3. \A b \in d.buttons : \/ d.pin \in known' /\ b \in buttons'[d.pin]
                           \/ {d.pin, b} \cap removed' # {}
      BY <1>1, <1>2
<1>4. QED
      BY <1>3 DEF Works

\* A step that adds the drawing of one object at most.
LEMMA DrawingsKept ==
    ASSUME Typed, Accounted, DrawingsWork, PinResolved', PinAround', NEW r \in ConfigRef,
           \A d \in Around' :
              d \in Around \/ \E menu : d = Draw(heap'[r], menu, buttons')
    PROVE  DrawingsWork'
<1> SUFFICES ASSUME Kept', NEW d \in Around' PROVE Works(d)'
    BY DEF DrawingsWork
<1>1. CASE d \in Around
      <2>1. Works(d) /\ d \in Drawing
            BY <1>1, AroundTyped DEF Accounted, Kept, DrawingsWork
      <2>2. QED
            BY <2>1, AccountedWorks
<1>2. ASSUME NEW menu, d = Draw(heap'[r], menu, buttons') PROVE Works(d)'
      BY <1>2, DrawnWorks
<1>3. QED
      BY <1>1, <1>2

\* A handler that changes something draws at most the object it works on, and what it
\* takes from memory it has counted as removed.
LEMMA HandlerWorks ==
    ASSUME Typed, PinResolved', WorksInv, NEW h \in Handler,
           \/ AddServer(h) \/ SaveServer(h) \/ RemoveServers(h) \/ Unpin(h)
           \/ DeleteServers(h) \/ Pin(h) \/ PushButton(h) \/ RemoveButtons(h)
    PROVE  WorksInv'
<1> DEFINE r == cfg[h]
<1>1. /\ r \in ConfigRef /\ incident \subseteq incident'
      /\ \A q \in ConfigRef : heap'[q].draft = heap[q].draft
      /\ \A q \in ConfigRef : q # r => heap'[q] = heap[q]
      /\ \A k \in Handler \ {h} : UNCHANGED <<pc[k], op[k], cfg[k], gone[k]>>
      BY HandlerEffect
<1>2. /\ heap \in [ConfigRef -> ConfigType] /\ buttons \in [Server -> SUBSET Button]
      /\ edits \subseteq [message : Message, draws : Drawing, last : BOOLEAN]
      BY TypedState
<1>3. Accounted
      <2>1. ASSUME NEW s, NEW B, ChangeButtons(h, s, B), removed \subseteq removed',
                   buttons[s] \ B \subseteq removed'
            PROVE  Accounted
            <3>1. buttons' = [buttons EXCEPT ![s] = B] /\ known' = known
                  BY <2>1 DEF ChangeButtons
            <3>2. QED
                  BY <1>1, <1>2, <2>1, <3>1 DEF Accounted
      <2>2. CASE PushButton(h)
            BY <2>1, <2>2 DEF PushButton
      <2>3. CASE RemoveButtons(h)
            BY <2>1, <2>3 DEF RemoveButtons
      <2>4. CASE DeleteServers(h)
            <3>1. gone[h] \subseteq removed /\ removed' = removed /\ buttons' = buttons
                  BY <2>4 DEF DeleteServers, WorksInv, GoneRemoved, Removing
            <3>2. known \ known' \subseteq gone[h]
                  BY <2>4 DEF DeleteServers
            <3>3. QED
                  BY <1>1, <3>1, <3>2 DEF Accounted
      <2>5. CASE AddServer(h) \/ SaveServer(h) \/ RemoveServers(h) \/ Unpin(h) \/ Pin(h)
            <3>1. /\ removed \subseteq removed' /\ known \subseteq known' /\ buttons' = buttons
                  BY <2>5 DEF AddServer, SaveServer, RemoveServers, Unpin, Pin, memoryVars
            <3>2. QED
                  BY <1>1, <3>1 DEF Accounted
      <2>6. QED
            BY <2>2, <2>3, <2>4, <2>5
<1>4. GoneRemoved'
      <2>1. ASSUME Removing(h)' PROVE gone'[h] \subseteq removed'
            <3>1. CASE RemoveServers(h)
                  <4>1. CASE Fail(h)
                        BY <2>1, <4>1, FinishEffect DEF Fail, Removing
                  <4>2. CASE ~Fail(h)
                        BY <3>1, <4>2, TypedState DEF RemoveServers
                  <4>3. QED
                        BY <4>1, <4>2
            <3>2. CASE Unpin(h)
                  <4>1. CASE Fail(h)
                        BY <2>1, <4>1, FinishEffect DEF Fail, Removing
                  <4>2. CASE ~Fail(h)
                        BY <3>2, <4>2 DEF Unpin, frameVars, WorksInv, GoneRemoved, Removing
                  <4>3. QED
                        BY <4>1, <4>2
            <3>3. CASE ~RemoveServers(h) /\ ~Unpin(h)
                  <4>1. Finish(h) \/ Goto(h, "save")
                        BY <3>3
                        DEF AddServer, SaveServer, DeleteServers, Pin, PushButton,
                            RemoveButtons, ChangeButtons, Fail
                  <4>2. QED
                        BY <2>1, <4>1, FinishEffect, TypedState DEF Goto, Removing
            <3>4. QED
                  BY <3>1, <3>2, <3>3
      <2>2. QED
            BY <1>1, <1>3, <2>1 DEF WorksInv, GoneRemoved, Removing, Accounted
<1>5. PinAround'
      <2>1. SUFFICES ASSUME Kept', NEW q \in ConfigRef
                     PROVE  heap'[q].pin \in known' \cup removed' \cup {None}
            BY DEF PinAround
      <2>2. heap[q].pin \in known' \cup removed' \cup {None}
            BY <1>3, <2>1 DEF WorksInv, PinAround, Kept, Accounted
      <2>3. CASE Unpin(h)
            <3>1. heap'[q].pin \in {heap[q].pin, None}
                  BY <1>1, <1>2, <2>3 DEF Unpin, Unpinned, ConfigType
            <3>2. QED
                  BY <2>2, <3>1
      <2>4. CASE Pin(h)
            <3>1. heap'[q].pin = heap[q].pin \/ heap'[q].pin \in known'
                  BY <1>1, <1>2, <2>4 DEF Pin, Pinnable, ConfigType
            <3>2. QED
                  BY <2>2, <3>1
      <2>5. CASE ~Unpin(h) /\ ~Pin(h)
            <3>1. heap'[q].pin = heap[q].pin
                  BY <1>1, <1>2, <2>5
                  DEF AddServer, SaveServer, RemoveServers, Unlisted, DeleteServers,
                      PushButton, RemoveButtons, ChangeButtons, memoryVars, ConfigType
            <3>2. QED
                  BY <2>2, <3>1
      <2>6. QED
            BY <2>3, <2>4, <2>5
<1>6. DrawingsWork'
      <2>1. shown' = shown
            BY DEF AddServer, SaveServer, RemoveServers, Unpin, DeleteServers, Pin, PushButton,
                   RemoveButtons, ChangeButtons, Edit, updateServerStatusWidget, Fail
      <2>2. edits' = edits \/ \E menu : Edit(r, heap'[r], menu, buttons')
            BY <1>1, <1>2
            DEF AddServer, SaveServer, RemoveServers, Unpin, DeleteServers, Pin, PushButton,
                RemoveButtons, ChangeButtons, Fail, memoryVars
      <2>3. ASSUME NEW menu, Edit(r, heap'[r], menu, buttons'), NEW e \in edits'
            PROVE  (\E f \in edits : e.draws = f.draws) \/ e.draws = Draw(heap'[r], menu, buttons')
            <3> DEFINE m == heap'[r].message
                       new == [message |-> m, draws |-> Draw(heap'[r], menu, buttons'),
                               last |-> TRUE]
            <3>1. edits' = IF m = None THEN edits
                           ELSE {[f EXCEPT !.last = @ /\ f.message # m] : f \in edits} \cup {new}
                  BY <2>3 DEF Edit, updateServerStatusWidget
            <3>2. \A f \in edits : [f EXCEPT !.last = @ /\ f.message # m].draws = f.draws
                  BY <1>2
            <3>3. new.draws = Draw(heap'[r], menu, buttons')
                  OBVIOUS
            <3> HIDE DEF m, new
            <3>4. QED
                  BY <2>3, <3>1, <3>2, <3>3
      <2>4. \A d \in Around' :
               d \in Around \/ \E menu : d = Draw(heap'[r], menu, buttons')
            <3> HIDE DEF r
            <3>1. ASSUME NEW e \in edits'
                  PROVE  \/ \E f \in edits : e.draws = f.draws
                         \/ \E menu : e.draws = Draw(heap'[r], menu, buttons')
                  BY <2>2, <2>3, <3>1
            <3>2. QED
                  BY <1>1, <2>1, <3>1 DEF Around
      <2> HIDE DEF r
      <2>5. QED
            BY <1>1, <1>3, <1>5, <2>4, DrawingsKept DEF WorksInv
<1>7. QED
      BY <1>4, <1>5, <1>6 DEF WorksInv

\* A start finds the buttons of every server it finds, and the pin on one of them.
LEMMA RestartWorks ==
    ASSUME Typed, PinInv, Matches, WorksInv, Restart
    PROVE  WorksInv'
<1>1. /\ UNCHANGED <<doc, docs, shown, edits, removed>> /\ known' = DOMAIN docs
      /\ \A s \in Server : buttons'[s] = IF s \in DOMAIN docs THEN docs[s] ELSE {}
      /\ \A h \in Handler : pc'[h] = "idle"
      BY DEF Restart, databaseVars
<1>2. Kept' => Kept /\ Calm
      BY DEF Restart, Note, Kept, Calm
<1>3. \A r \in ConfigRef : /\ heap'[r].draft = None
                           /\ heap'[r].pin = None \/ (doc # NoDocument /\ heap'[r].pin = doc.pin)
      BY DEF Restart, Blank
<1>4. GoneRemoved'
      BY <1>1 DEF GoneRemoved, Removing
<1>5. PinAround'
      BY <1>1, <1>2, <1>3 DEF PinAround, PinInv, PinStored
<1>6. ASSUME Kept', NEW d \in Around' PROVE Works(d)'
      <2>1. d \in Around
            BY <1>1, <1>3, <1>6 DEF Around
      <2>2. Works(d) /\ d \in Drawing
            BY <1>2, <1>6, <2>1, AroundTyped DEF WorksInv, DrawingsWork
      <2>3. ASSUME d.pin \in known, NEW b \in buttons[d.pin]
            PROVE  d.pin \in known' /\ b \in buttons'[d.pin]
            <3>1. d.pin \in Server
                  BY <2>3, TypedState
            <3>2. d.pin \notin Saving
                  BY <1>2, <1>6, <2>3 DEF Matches, ButtonsSaved
            <3>3. d.pin \in DOMAIN docs
                  BY <1>2, <1>6, <2>3, <3>2 DEF PinInv, KnownSaved
            <3>4. docs[d.pin] = buttons[d.pin]
                  BY <1>2, <1>6, <2>3, <3>3 DEF Matches, ButtonsSaved
            <3>5. QED
                  BY <1>1, <2>3, <3>1, <3>3, <3>4
      <2>4. QED
            BY <1>1, <2>2, <2>3 DEF Works
<1>7. QED
      BY <1>4, <1>5, <1>6 DEF WorksInv, DrawingsWork

LEMMA NextWorks ==
    ASSUME Typed, Typed', PinInv, PinInv', Matches, WorksInv, [Next]_vars
    PROVE  WorksInv'
<1>0. PinResolved /\ PinResolved'
      BY DEF PinInv
\* Steps that leave the servers alone, and add at most a drawing of the guild's object.
<1>1. ASSUME UNCHANGED <<known, buttons, incident, removed>>,
             \A h \in Handler : Removing(h)' => Removing(h) /\ gone'[h] = gone[h],
             \A r \in ConfigRef : heap'[r].pin = heap[r].pin,
             NEW r \in ConfigRef,
             \A d \in Around' : d \in Around \/ \E menu : d = Draw(heap'[r], menu, buttons')
      PROVE  WorksInv'
      <2>1. Accounted
            BY <1>1 DEF Accounted
      <2>2. GoneRemoved' /\ PinAround'
            BY <1>1 DEF WorksInv, GoneRemoved, PinAround, Kept
      <2>3. DrawingsWork'
            BY <1>0, <1>1, <2>1, <2>2, DrawingsKept DEF WorksInv
      <2>4. QED
            BY <2>2, <2>3 DEF WorksInv
<1>2. ASSUME Still, UNCHANGED removed PROVE WorksInv'
      <2>1. /\ UNCHANGED <<memoryVars, databaseVars, discordVars>> /\ incident \subseteq incident'
            /\ \A h \in Handler : Removing(h)' => Removing(h) /\ gone'[h] = gone[h]
            BY <1>2 DEF Still, Removing, Midway
      <2>2. Around' = Around /\ Accounted
            BY <1>2, <2>1 DEF Around, Accounted, memoryVars
      <2>3. GoneRemoved' /\ PinAround'
            BY <1>2, <2>1 DEF WorksInv, GoneRemoved, PinAround, Kept, memoryVars
      <2>4. DrawingsWork'
            BY <2>1, <2>2, AroundTyped, AccountedWorks DEF WorksInv, DrawingsWork, Kept
      <2>5. QED
            BY <2>3, <2>4 DEF WorksInv
<1>3. ASSUME NEW h \in Handler, Handle(h) PROVE WorksInv'
      <2>1. CASE \/ Find(h) \/ AddServerRefused(h) \/ PinRefused(h) \/ ButtonsRefused(h)
                 \/ AddButton(h)
            <3>1. removed' = removed
                  BY <2>1 DEF Find, AddServerRefused, PinRefused, ButtonsRefused, End, AddButton
            <3>2. QED
                  BY <1>2, <2>1, <3>1, StillSteps
      <2>2. QED
            BY <1>0, <1>3, <2>1, HandlerWorks DEF Handle
<1>4. ASSUME NEW h \in Handler, NEW q \in Request, Submit(h, q) PROVE WorksInv'
      BY <1>2, <1>4, StillSteps DEF Submit
<1>5. ASSUME NEW r \in Config, Create(r) PROVE WorksInv'
      <2>1. /\ r \in ConfigRef /\ heap' = [heap EXCEPT ![r] = [Blank EXCEPT !.building = TRUE]]
            /\ UNCHANGED <<handlerVars, known, buttons, discordVars, removed>>
            /\ incident \subseteq incident'
            BY <1>5 DEF Create, ConfigRef, Note
      <2>2. /\ heap'[r].draft = None /\ heap'[r].pin = None
            /\ \A q \in ConfigRef \ {r} : heap'[q] = heap[q]
            BY <2>1, TypedState DEF Blank
      <2>3. Accounted /\ \A d \in Around' : d \in Around
            BY <2>1, <2>2 DEF Accounted, Around
      <2>4. GoneRemoved' /\ PinAround'
            BY <2>1, <2>2
            DEF WorksInv, GoneRemoved, PinAround, Kept, Removing, handlerVars, frameVars
      <2>5. DrawingsWork'
            BY <1>0, <2>1, <2>3, <2>4, DrawingsKept DEF WorksInv
      <2>6. QED
            BY <2>4, <2>5 DEF WorksInv
<1>6. CASE \/ Rebuild \/ Draft \/ BuildFails
           \/ \E m \in Message : Publish(m)
      <2>1. /\ Building /\ cache \in ConfigRef
            /\ \A r \in ConfigRef : heap'[r].pin = heap[r].pin
            BY <1>6, BuildSteps, BuildingTyped
      <2>2. /\ heap \in [ConfigRef -> ConfigType] /\ heap[cache] \in ConfigType
            /\ \A r \in ConfigRef \ {cache} : heap'[r] = heap[r]
            BY <2>1, TypedState DEF Building
      <2>3. /\ UNCHANGED <<handlerVars, known, buttons, edits, removed, incident>>
            /\ \A m \in Message : shown'[m] \in {shown[m], heap[cache].draft}
            BY <2>1, TypedState DEF Building
      <2>4. \/ heap'[cache].draft = None
            \/ \E menu : heap'[cache].draft = Draw(heap'[cache], menu, buttons')
            <3>1. CASE Draft
                  <4>1. /\ heap'[cache].draft = Draw(heap[cache], Menu(heap[cache]), buttons)
                        /\ heap'[cache].pin = heap[cache].pin
                        /\ heap'[cache].active = heap[cache].active
                        BY <2>1, <2>2, <3>1 DEF Draft, Widget, ConfigType
                  <4>2. heap'[cache].draft = Draw(heap'[cache], Menu(heap[cache]), buttons')
                        BY <2>3, <4>1 DEF Draw
                  <4>3. QED
                        BY <4>2
            <3>2. CASE Rebuild \/ BuildFails
                  BY <2>1, <2>2, <3>2 DEF Rebuild, BuildFails, ConfigType
            <3>3. ASSUME NEW m \in Message, Publish(m) PROVE heap'[cache].draft = None
                  BY <2>1, <2>2, <3>3 DEF Publish, ConfigType
            <3>4. QED
                  BY <1>6, <3>1, <3>2, <3>3
      <2>5. \A d \in Around' :
               d \in Around \/ \E menu : d = Draw(heap'[cache], menu, buttons')
            BY <2>1, <2>2, <2>3, <2>4 DEF Around
      <2>6. \A h \in Handler : Removing(h)' => Removing(h) /\ gone'[h] = gone[h]
            BY <2>3 DEF handlerVars, frameVars, Removing
      <2>7. QED
            BY <1>1, <2>1, <2>3, <2>5, <2>6
<1>7. ASSUME Elsewhere, \A d \in Around' : d \in Around PROVE WorksInv'
      <2>1. /\ UNCHANGED <<heap, known, buttons, incident, removed, pc, gone>>
            /\ Boot \in ConfigRef
            BY <1>7 DEF Elsewhere, memoryVars, handlerVars, frameVars, ConfigRef
      <2>2. QED
            BY <1>1, <1>7, <2>1 DEF Removing
<1>8. ASSUME \/ UNCHANGED vars
             \/ \E m \in Message : Deleted(m)
             \/ \E e \in edits : Apply(e) \/ Refuse(e)
      PROVE  WorksInv'
      <2>1. Elsewhere
            BY <1>8, ElsewhereSteps
      <2>2. /\ heap' = heap /\ edits' \subseteq edits
            /\ \A m \in Message : \/ shown'[m] \in {shown[m], None}
                                  \/ \E e \in edits : shown'[m] = e.draws
            BY <1>8, TypedState DEF vars, memoryVars, Deleted, Apply, Refuse
      <2>3. \A d \in Around' : d \in Around
            BY <2>2 DEF Around
      <2>4. QED
            BY <1>7, <2>1, <2>3
<1>9. CASE Erase
      <2>1. Around' = Around /\ Boot \in ConfigRef
            BY <1>9 DEF Erase, Around, ConfigRef
      <2>2. QED
            BY <1>1, <1>9, <2>1 DEF Erase, handlerVars, frameVars, Removing
<1>10. QED
      BY <1>3, <1>4, <1>5, <1>6, <1>8, <1>9, RestartWorks DEF Next

LEMMA InitWorks == Init => WorksInv
<1> SUFFICES ASSUME Init PROVE WorksInv
    OBVIOUS
<1>1. /\ \A h \in Handler : pc[h] = "idle"
      /\ \A r \in ConfigRef : heap[r].pin = None /\ heap[r].draft = None
      /\ \A m \in Message : shown[m] = None
      /\ edits = {}
      BY DEF Init, Blank
<1>2. Around = {}
      BY <1>1 DEF Around
<1>3. QED
      BY <1>1, <1>2 DEF WorksInv, GoneRemoved, PinAround, DrawingsWork, Removing

\* Every button of a widget in Discord is accepted when pressed, or it or its server
\* was removed: whatever becomes of the edits, whichever configuration the widget is of,
\* and wherever the process ended.
THEOREM WidgetButtonsWork == Spec => []ShownButtonsWork
<1>1. Init => ListInv /\ WorksInv
      BY InitLists, InitWorks
<1>2. ListInv /\ WorksInv /\ [Next]_vars => (ListInv /\ WorksInv)'
      BY NextLists, NextWorks DEF ListInv
<1>3. ASSUME ListInv, WorksInv PROVE ShownButtonsWork
      <2>1. SUFFICES ASSUME Kept, cache # None, NEW m \in Message, shown[m] # None,
                            NEW b \in shown[m].buttons
                     PROVE  Accepted(shown[m].pin, b) \/ {shown[m].pin, b} \cap removed # {}
            BY DEF ShownButtonsWork, Kept
      <2>2. shown[m] \in Around
            BY <2>1 DEF Around
      <2>3. QED
            BY <1>3, <2>1, <2>2 DEF WorksInv, DrawingsWork, Works, Accepted
<1>4. QED
      BY <1>1, <1>2, <1>3, PTL DEF Spec
=============================================================================
