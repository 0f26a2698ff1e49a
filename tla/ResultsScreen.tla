---------------------------- MODULE ResultsScreen ----------------------------
(***************************************************************************)
(* The interactive results of a scan                                       *)
(* (scan-ui/components/InteractiveResultsView.tsx): a list of groups of    *)
(* packages with a cursor, a window onto it, one opened row that grows     *)
(* while it opens, a search, and the panes and menus above it.  The        *)
(* terminal may be resized at any moment; an effect of the rendering moves *)
(* the window when the number of rows for the list changes, and nothing    *)
(* else does but the keys.                                                 *)
(***************************************************************************)
EXTENDS Integers, FiniteSetsExt

CONSTANTS
    RowCount,   \* how many rows a list or a search can show
    LogoRows,   \* the lines of the logo, none on a narrow terminal
    TextRows,   \* the lines beside it
    NoteLines,  \* those about acknowledged packages and packages not scanned
    CompactRows,
    Height,     \* of each row: the lines of its summary when opened
    Quiet,      \* passed or acknowledged: shown by a search only
    Queries,    \* bound: the sets of rows that the searches match
    TermRows,   \* bound: the heights of the terminal
    PaneLines,  \* the lines of the full detail of a row
    Licenses,   \* how many licenses there are
    LicensePkgs \* bound: how many packages of a license a filter leaves

Rows == 1..RowCount

ASSUME ScreenAssumption ==
    /\ {RowCount, LogoRows, TextRows, NoteLines, CompactRows} \subseteq Nat
    /\ Height \in [Rows -> Nat] /\ Quiet \subseteq Rows /\ Queries \subseteq SUBSET Rows
    /\ TermRows \subseteq Nat /\ PaneLines \in Nat /\ Licenses \in Nat /\ LicensePkgs \subseteq Nat

VARIABLES
    termRows,
    query,   \* the rows the search text matches, or AllFlagged without one
    cursor, viewport, expanded,
    lines,   \* animVisibleLines: how much of the opened row is drawn
    view,    \* what has the keys, the topmost thing drawn
    below,   \* what a menu or the help was opened over, "none" otherwise
    scroll,  \* of the detail pane, or of a license's packages
    license, \* licenseCursor
    left     \* how many of the license's packages its filter leaves

listVars == <<query, cursor, viewport, expanded, lines>>
screenVars == <<termRows, query, cursor, viewport, expanded, lines, view, below, scroll, license, left>>

NoRow == 0
AllFlagged == {NoRow}  \* no query

-----------------------------------------------------------------------------
\* What is drawn of the list

\* groups: flagged packages that are not acknowledged, or, in a search, every
\* row that matches; each at the place, counted from 0, that those before leave it.
GroupsOf(q) == {r \in Rows : IF q = AllFlagged THEN r \notin Quiet ELSE r \in q}
PlaceOf(q, row) == Cardinality({r \in GroupsOf(q) : r < row})
CountOf(q) == Cardinality(GroupsOf(q))
Groups == GroupsOf(query)
Count == CountOf(query)

\* groupRowHeight, and animatedGroupHeight while the row opens: the lines of the
\* rows from first on and before end, one each, and those that the open row adds.
HeightOf(q, first, end, open, added) ==
    end - first + IF open \in GroupsOf(q) /\ PlaceOf(q, open) \in first..(end - 1) THEN added ELSE 0
FullHeight(q, first, end, open) ==
    HeightOf(q, first, end, open, IF open = NoRow THEN 0 ELSE Height[open])
DrawnHeight(first, end) == HeightOf(query, first, end, expanded, lines)

ListRows == DrawnHeight(0, Count)

Room(maxList) == Max({5, IF ListRows <= maxList THEN maxList ELSE maxList - 2})

\* resolveResultsLayout
Layout ==
    LET some    == Groups # {}
        extra   == NoteLines + IF query # AllFlagged /\ ~some THEN 1 ELSE 0
        full    == 2 + Max({LogoRows, TextRows + 2}) + (IF some THEN 2 ELSE 0) + 4 + extra
        dense   == 2 + TextRows + (IF some THEN 1 ELSE 0) + 2 + extra
        compact == termRows < CompactRows /\ ListRows > termRows - full
        maxList == termRows - IF compact THEN dense ELSE full
    IN  [maxList |-> maxList, available |-> Room(maxList)]
Available == Layout.available

\* Slip: the summary of the opened row is left out of account.
ViewportForClosedRows(q, c, open, start, room) ==
    IF c < start THEN c ELSE Min({c} \cup {t \in start..c : c - t < room})

\* adjustViewport: the least move down that shows all of the cursor's row.
AdjustViewport(q, c, open, start, room) ==
    IF c < start THEN c ELSE Min({c} \cup {t \in start..c : FullHeight(q, t, c + 1, open) <= room})

\* visibleEnd: the first row that is not drawn; one is, whatever its height.
VisibleEnd == Max({viewport + 1} \cup {e \in viewport..Count : DrawnHeight(viewport, e) <= Available})

\* What the opened row grows to.
Target(q, open) == IF open \in GroupsOf(q) THEN Height[open] ELSE 0

\* The window of the license views, centred on the cursor (visibleRows rows)
SubviewRows == Max({5, termRows - 20})
WindowTop(c, count) == Max({0, Min({c - (SubviewRows - 1) \div 2, count - SubviewRows})})
InWindow(c, count) ==
    LET top == WindowTop(c, count) IN top <= c /\ c < Min({top + SubviewRows, count})

\* The detail pane's scroll
MaxScroll == Max({0, PaneLines - Max({3, termRows - 20})})

-----------------------------------------------------------------------------
\* One event and the renderings it causes

ScreenInit ==
    /\ termRows \in TermRows
    /\ query = AllFlagged /\ cursor = 0 /\ viewport = 0 /\ expanded = NoRow /\ lines = 0
    /\ view = "list" /\ below = "none"
    /\ scroll = 0 /\ license = 0 /\ left = 0

\* useExpandAnimation starts again when what it grows to changes.
Restarted ==
    IF Target(query', expanded') = Target(query, expanded) THEN lines
    ELSE Min({1, Target(query', expanded')})

\* The effect on availableRows, with the cursor and the window that the event
\* asked for.
Settle(c, start) ==
    /\ cursor' = c
    /\ viewport' = IF Available' = Available \/ GroupsOf(query') = {} THEN start
                   ELSE AdjustViewport(query', c, expanded', Min({start, CountOf(query') - 1}), Available')

\* useTerminalSize, and the effects on the size of the list and of the pane
Resize(rows) ==
    /\ view # "gone" /\ rows # termRows
    /\ termRows' = rows
    /\ UNCHANGED <<query, expanded, lines, view, below, license, left>>
    /\ Settle(cursor, viewport)
    /\ scroll' = IF "pane" \in {view, below} THEN Min({scroll, MaxScroll'}) ELSE scroll

\* A tick of the animation
Grow ==
    /\ view # "gone" /\ lines < Target(query, expanded)
    /\ lines' = lines + 1
    /\ UNCHANGED <<termRows, query, expanded, view, below, scroll, license, left>>
    /\ Settle(cursor, viewport)

-----------------------------------------------------------------------------
\* Keys of the list

Turn(turns) == \E t \in turns : view = t[1] /\ view' = t[2]

Elsewhere == <<termRows, below, scroll, license, left>>

\* A key that moves the cursor to c: the arrows, g, G, the page keys.
MoveTo(c, start) ==
    /\ view = "list" /\ Groups # {}
    /\ UNCHANGED <<Elsewhere, query, expanded, lines, view>>
    /\ Settle(c, AdjustViewport(query, c, expanded, start, Available))

Last == Count - 1
Up == MoveTo(Max({0, cursor - 1}), Min({viewport, Max({0, cursor - 1})}))
Down == MoveTo(Min({Last, cursor + 1}), viewport)
ToFirst == MoveTo(0, 0)
ToLast == MoveTo(Last, viewport)
PageDown == MoveTo(Min({Last, cursor + Available}), viewport)
PageUp == MoveTo(Max({0, cursor - Available}), Max({0, cursor - Available}))

\* Return: open the row; on an opened one, its full detail.
Open ==
    /\ view = "list" /\ Groups # {}
    /\ \E row \in Groups :
         /\ PlaceOf(query, row) = cursor
         /\ \/ /\ expanded = row
               /\ view' = "pane" /\ scroll' = 0
               /\ UNCHANGED <<listVars, termRows, below, license, left>>
            \/ /\ expanded # row
               /\ expanded' = row
               /\ UNCHANGED <<Elsewhere, query, view>>
               /\ lines' = Restarted
               /\ Settle(cursor, AdjustViewport(query, cursor, row, viewport, Available))

\* Escape: close the row, else drop the search, else go back to the selection.
Escape ==
    /\ view = "list"
    /\ UNCHANGED Elsewhere
    /\ CASE expanded # NoRow ->
              /\ expanded' = NoRow /\ UNCHANGED <<query, view>>
              /\ lines' = Restarted /\ Settle(cursor, viewport)
         [] expanded = NoRow /\ query # AllFlagged ->
              /\ query' = AllFlagged /\ UNCHANGED <<expanded, view>>
              /\ lines' = Restarted /\ Settle(0, 0)
         [] expanded = NoRow /\ query = AllFlagged ->
              view' = "gone" /\ UNCHANGED listVars

-----------------------------------------------------------------------------
\* The search, the pane and the license views

StartSearch ==
    /\ view = "list" /\ view' = "search"
    /\ UNCHANGED <<listVars, Elsewhere>>

\* A letter, a deletion or escape: another query, from the top of its matches.
Search(q) ==
    /\ view = "search"
    /\ query' = q /\ view' \in (IF q = AllFlagged THEN {"search", "list"} ELSE {"search"})
    /\ UNCHANGED <<Elsewhere, expanded>>
    /\ lines' = Restarted /\ Settle(0, 0)

\* Return: keep the matches, if there are any.
EndSearch ==
    /\ view = "search" /\ view' = "list"
    /\ UNCHANGED <<Elsewhere, expanded>>
    /\ IF Groups = {}
       THEN query' = AllFlagged /\ lines' = Restarted /\ Settle(0, 0)
       ELSE UNCHANGED <<query, cursor, viewport, lines>>

\* Arrows, g and G in the detail pane
ScrollPane(s) ==
    /\ view = "pane"
    /\ s \in {Max({0, scroll - 1}), Min({MaxScroll, scroll + 1}), 0, MaxScroll}
    /\ scroll' = s
    /\ UNCHANGED <<listVars, termRows, view, below, license, left>>

\* Opening and leaving the licenses and one of them, with its filter
EnterLicenses ==
    /\ view = "list"
    /\ view' = "licenses" /\ license' = 0
    /\ UNCHANGED <<listVars, termRows, below, scroll, left>>

MoveLicense(c) ==
    /\ view = "licenses"
    /\ c \in {Max({0, license - 1}), Min({Licenses - 1, license + 1})}
    /\ license' = c
    /\ UNCHANGED <<listVars, termRows, view, below, scroll, left>>

EnterLicense(count) ==
    /\ view = "licenses"
    /\ view' = "license" /\ scroll' = 0 /\ left' = count
    /\ UNCHANGED <<listVars, termRows, below, license>>

ScrollLicense(s) ==
    /\ view = "license"
    /\ s \in {Max({0, scroll - 1}), Min({Max({0, left - 1}), scroll + 1})}
    /\ scroll' = s
    /\ UNCHANGED <<listVars, termRows, view, below, license, left>>

FilterLicense(count) ==
    /\ view = "licenseSearch" /\ left' = count /\ scroll' = 0
    /\ UNCHANGED <<listVars, termRows, view, below, license>>

SwitchLicenseSearch ==
    /\ Turn({<<"license", "licenseSearch">>, <<"licenseSearch", "license">>})
    /\ UNCHANGED <<listVars, Elsewhere>>

\* Escape in the pane and in the license views
BackOut ==
    /\ Turn({<<"pane", "list">>, <<"licenses", "list">>, <<"license", "licenses">>})
    /\ scroll' = 0 /\ left' = 0
    /\ UNCHANGED <<listVars, termRows, below, license>>

-----------------------------------------------------------------------------
\* What is drawn over another view: the help, the export menu (openExportMenu,
\* for those logged in) and its dialog, which writes the report or fails

Cover ==
    /\ Turn(({"list", "pane"} \X {"help"}) \cup ({"list", "licenses", "license"} \X {"menu"}))
    /\ below' = view
    /\ UNCHANGED <<listVars, termRows, scroll, license, left>>

\* A scope with something to export opens the dialog. A report written, or one
\* that failed, closes the menu; a dialog left by escape returns to it.
Uncover ==
    /\ \/ view \in {"help", "menu", "dialog"} /\ view' = below /\ below' = "none"
       \/ Turn({<<"menu", "dialog">>, <<"dialog", "menu">>}) /\ UNCHANGED below
    /\ UNCHANGED <<listVars, termRows, scroll, license, left>>

Quit ==
    /\ view \in {"list", "pane", "licenses", "license", "help"}
    /\ view' = "gone" /\ below' = "none"
    /\ UNCHANGED <<listVars, termRows, scroll, license, left>>

ScreenNext ==
    \/ \E rows \in TermRows : Resize(rows)
    \/ Grow \/ Up \/ Down \/ ToFirst \/ ToLast \/ PageDown \/ PageUp \/ Open \/ Escape
    \/ StartSearch \/ EndSearch \/ (\E q \in Queries \cup {AllFlagged} : Search(q))
    \/ \E s \in 0..PaneLines : ScrollPane(s)
    \/ EnterLicenses \/ (\E c \in -1..Licenses : MoveLicense(c))
    \/ \E count \in LicensePkgs : EnterLicense(count) \/ FilterLicense(count)
    \/ \E s \in 0..Max(LicensePkgs) : ScrollLicense(s)
    \/ SwitchLicenseSearch \/ BackOut \/ Cover \/ Uncover \/ Quit

ScreenSpec == ScreenInit /\ [][ScreenNext]_screenVars

-----------------------------------------------------------------------------
\* A row of the list with its whole summary, if that fits at all; a license; one
\* of its packages; and the detail pane not scrolled past its end.
CursorDrawn ==
    /\ Groups # {} =>
         /\ viewport <= cursor /\ cursor < VisibleEnd
         /\ cursor = viewport \/ FullHeight(query, viewport, cursor + 1, expanded) <= Available
    /\ ("licenses" \in {view, below} /\ Licenses > 0) => InWindow(license, Licenses)
    /\ ("license" \in {view, below} /\ left > 0) => InWindow(scroll, left)
    /\ "pane" \in {view, below} => scroll <= MaxScroll

\* The rows of the list and the two lines that count those above and below fit
\* what the layout leaves for them, unless that is under seven rows or one row
\* alone does not fit.
ListFits ==
    LET markers == (IF viewport > 0 THEN 1 ELSE 0) + IF VisibleEnd < Count THEN 1 ELSE 0
    IN  (Groups # {} /\ Layout.maxList >= 7 /\ VisibleEnd > viewport + 1)
            => DrawnHeight(viewport, VisibleEnd) + markers <= Layout.maxList

\* What has the cursor is on the screen, in every view: it is drawn, and what is
\* drawn does not push it off the terminal. Resizing, the animation and a search
\* move the rows under the cursor, and only the effect of the rendering makes up
\* for it (InteractiveResultsView.tsx:895-949).
SelectionVisible == CursorDrawn /\ ListFits
=============================================================================
