----------------------------- MODULE KenzoView -----------------------------
(***************************************************************************)
(* The log view of Kenzo (tools/kenzo/src/app.rs and ui.rs): the logs, the *)
(* indices that pass the filters, the search matches among them, and the   *)
(* keys of the connected screen.  One pass of App::run draws, takes what   *)
(* has arrived, and handles one key: a key is pressed on what was drawn    *)
(* before the logs of this pass came in.                                   *)
(*                                                                         *)
(* Indices count from 0 as in the code.  The connection is KenzoSession's  *)
(* subject; here it only decides which screen is shown.                    *)
(***************************************************************************)
EXTENDS Naturals, Sequences, SequencesExt, FiniteSets, FiniteSetsExt

CONSTANTS Logs,          \* the logs that may arrive: records with a severity
                         \* and a sink; sinks are numbered in their order
          Chars,         \* the characters typed into the search
          Found,         \* Found[q]: the logs a search for q finds
          Slips,         \* Slips[q]: the logs with a cell that highlight_text may
                         \* slice outside its text or inside a character
          SeverityKeys,  \* the severities of the keys 1 to 5 that are used
          None,          \* no index
          LogLimit,      \* bound of the model: the length of logs
          QueryLimit     \* bound of the model: the length of search_query

Queries == SeqOf(Chars, QueryLimit)
Dims == {"severity", "sink"}

\* A longer search finds less.  Highlighting looks for the query in the text in
\* lower case, where characters may have another length, and slices the text there.
ASSUME ViewAssumption ==
  /\ \A log \in Logs, d \in Dims : log[d] \in Nat
  /\ SeverityKeys \subseteq 0..4
  /\ LogLimit \in Nat /\ QueryLimit \in Nat
  /\ None \notin Nat
  /\ Found \in [Queries -> SUBSET Logs]
  /\ \A q \in Queries : q # <<>> => Found[q] \subseteq Found[Front(q)]
  /\ Slips \in [Queries -> SUBSET Logs] /\ Slips[<<>>] = {}

VARIABLES
  phase,              \* where the pass of App::run is
  visible,            \* the connected screen is shown, not the popup
  logs,
  filtered_logs,      \* indices in logs
  excluded,           \* excluded_severities and excluded_sinks
  seen,               \* seen_severities and seen_sinks
  search_query,
  search_matches,     \* indices in filtered_logs
  current_match_idx,  \* index in search_matches
  scroll_locked,
  selected,           \* table_state.selected()
  cursor,             \* severity_list_state and sink_list_state
  focus,
  show_filters,
  panicked            \* an index or a slice was out of bounds: the program is gone

listVars == <<logs, filtered_logs, search_matches, current_match_idx>>
filterVars == <<excluded, seen, cursor, show_filters>>
vars == <<phase, visible, listVars, filterVars, search_query, scroll_locked,
          selected, focus, panicked>>

Focuses == {"Table", "Search", "severity", "sink"}  \* the last two: the filters
Batches == SeqOf(Logs, LogLimit)

Init == /\ phase = "draw"
        /\ visible = FALSE
        /\ logs = <<>>
        /\ filtered_logs = <<>>
        /\ excluded = [d \in Dims |-> {}]
        /\ seen = [d \in Dims |-> {}]
        /\ search_query = <<>>
        /\ search_matches = <<>>
        /\ current_match_idx = None
        /\ scroll_locked = FALSE
        /\ selected = None
        /\ cursor = [d \in Dims |-> None]
        /\ focus = "Table"
        /\ show_filters = FALSE
        /\ panicked = FALSE

-----------------------------------------------------------------------------
(* update_filtered_logs *)

\* The indices below n that are in T, in order: what a pass over them collects.
Collect(n, T) ==
  LET upTo[k \in 0..n] == IF k = 0 THEN <<>>
                          ELSE IF k - 1 \in T THEN Append(upTo[k - 1], k - 1)
                          ELSE upTo[k - 1]
  IN  upTo[n]

Passing(ls, ex) == {i \in 0..Len(ls) - 1 : \A d \in Dims : ls[i + 1][d] \notin ex[d]}

Matching(ls, rows, q) == {i \in 0..Len(rows) - 1 :
                            q # <<>> /\ ls[rows[i + 1] + 1] \in Found[q]}

\* jump_to_latest
Latest(rows) == IF rows = <<>> THEN selected ELSE Len(rows) - 1

Refresh ==
  /\ filtered_logs' = Collect(Len(logs'), Passing(logs', excluded'))
  /\ search_matches' = Collect(Len(filtered_logs'),
                               Matching(logs', filtered_logs', search_query'))
  /\ current_match_idx' = IF search_matches' = <<>> THEN None
                          ELSE IF current_match_idx = None THEN 0
                          ELSE current_match_idx
  /\ selected' = IF scroll_locked THEN selected ELSE Latest(filtered_logs')

-----------------------------------------------------------------------------
(* What the session does to the view *)

\* process_log for each log of a batch or of a file, then update_filtered_logs.
Process(ls, batch) ==
  /\ logs' = ls \o batch
  /\ seen' = [d \in Dims |-> seen[d] \cup {batch[i][d] : i \in DOMAIN batch}]
  /\ UNCHANGED <<excluded, search_query>>
  /\ Refresh
  /\ UNCHANGED <<cursor, show_filters, scroll_locked, focus, panicked>>

\* The batches that have arrived; the first of a connection shows the screen.
Receive == /\ phase = "receive"
           /\ phase' = "key"
           /\ \/ \E b \in Batches : /\ Len(logs) + Len(b) <= LogLimit
                                    /\ Process(logs, b)
                                    /\ visible' \in {visible, TRUE}
              \/ UNCHANGED <<visible, listVars, filterVars, search_query,
                             scroll_locked, selected, focus, panicked>>

\* load_csv, from the popup or the command line.
LoadCsv == /\ phase = "key"
           /\ ~visible
           /\ \E b \in Batches : Process(<<>>, b)
           /\ visible' = TRUE
           /\ phase' = "draw"

\* The session ends, is lost or is being set up again.
SessionChanges == /\ phase = "draw"
                  /\ visible' = ~visible
                  /\ UNCHANGED <<phase, listVars, filterVars, search_query,
                                 scroll_locked, selected, focus, panicked>>

-----------------------------------------------------------------------------
(* ui::draw: rendering a list brings its selection back into its bounds, unless
   the terminal leaves no room for it. *)

Clamp(i, n) == IF n = 0 THEN None
               ELSE IF i # None /\ i >= n THEN n - 1 ELSE i

DrawTable == selected' \in {selected, Clamp(selected, Len(filtered_logs))}

DrawFilters ==
  cursor' \in IF show_filters
              THEN {cursor, [d \in Dims |-> Clamp(cursor[d], Cardinality(seen[d]))]}
              ELSE {cursor}

\* render_table builds all rows, also those out of sight.
Drawn == {logs[row + 1] : row \in ToSet(filtered_logs)}

Draw == /\ phase = "draw"
        /\ phase' = "receive"
        /\ IF visible THEN DrawTable /\ DrawFilters ELSE UNCHANGED <<selected, cursor>>
        /\ UNCHANGED <<visible, listVars, excluded, seen, show_filters, search_query,
                       scroll_locked, focus, panicked>>

\* Which columns there are and where a message is wrapped is up to the terminal.
HighlightPanics == /\ phase = "draw"
                   /\ visible
                   /\ Drawn \cap Slips[search_query] # {}
                   /\ panicked' = TRUE
                   /\ UNCHANGED <<phase, visible, listVars, filterVars, search_query,
                                  scroll_locked, selected, focus>>

-----------------------------------------------------------------------------
(* Keys: handle_key and handle_connected_key *)

Pressed == phase = "key" /\ phase' = "draw" /\ UNCHANGED panicked
Key == Pressed /\ visible /\ UNCHANGED visible
Browsing == Key /\ focus # "Search"
Searching == Key /\ focus = "Search"

\* No key, or one that this screen does not know.
NoKey == /\ Pressed
         /\ UNCHANGED <<visible, listVars, filterVars, search_query, scroll_locked,
                        selected, focus>>

\* Slip: len() - 1 is not saturating.
BelowUnsaturated(i, n) == IF i = None THEN 0 ELSE IF i + 1 < n THEN i + 1 ELSE n - 1

\* move_down and move_up of a list with n entries.
Below(i, n) == IF i = None \/ n = 0 THEN 0 ELSE IF i + 1 < n THEN i + 1 ELSE n - 1
Above(i) == IF i = None \/ i = 0 THEN 0 ELSE i - 1

MoveCursor(d, i) == cursor' = [cursor EXCEPT ![d] = i]

\* Shift and h, j, k, l or an arrow: the focus moves, out of the search too.
\* handle_connected_key then sees the arrow up or down as a move.
SwitchFocus(f) ==
  /\ Pressed
  /\ f # "Search"
  /\ focus' = f
  /\ show_filters' = (show_filters \/ f \in Dims)
  /\ \/ UNCHANGED cursor
     \/ visible /\ f = "sink" /\ MoveCursor(f, Below(cursor[f], Cardinality(seen[f])))
     \/ visible /\ f = "severity" /\ MoveCursor(f, Above(cursor[f]))
  /\ UNCHANGED <<visible, listVars, excluded, seen, search_query, scroll_locked,
                 selected>>

SetQuery(q) == /\ search_query' = q
               /\ UNCHANGED <<logs, excluded>>
               /\ Refresh
               /\ UNCHANGED <<seen, cursor, show_filters, scroll_locked>>

TypeChar(c) == /\ Searching
               /\ Len(search_query) < QueryLimit
               /\ SetQuery(Append(search_query, c))
               /\ UNCHANGED focus

\* Slip: the filter is not run again.
BackspaceStale == /\ Searching
                  /\ search_query' = IF search_query = <<>> THEN <<>>
                                     ELSE Front(search_query)
                  /\ UNCHANGED <<listVars, filterVars, scroll_locked, selected, focus>>

Backspace == /\ Searching
             /\ SetQuery(IF search_query = <<>> THEN <<>> ELSE Front(search_query))
             /\ UNCHANGED focus

\* Esc clears the search; while typing it leaves the search as well.
Escape == /\ Key
          /\ IF focus = "Search" \/ search_query # <<>>
             THEN SetQuery(<<>>)
             ELSE UNCHANGED <<listVars, filterVars, search_query, scroll_locked, selected>>
          /\ focus' = IF focus = "Search" THEN "Table" ELSE focus

EnterOrSlash == /\ Key
                /\ focus' \in IF focus = "Search" THEN {"Table"} ELSE {"Search"}
                /\ UNCHANGED <<listVars, filterVars, search_query, scroll_locked,
                               selected>>

\* q: disconnect.
Quit == /\ Pressed
        /\ visible /\ focus # "Search"
        /\ visible' = FALSE
        /\ UNCHANGED <<listVars, filterVars, search_query, scroll_locked, selected,
                       focus>>

ToggleFilters == /\ Browsing
                 /\ show_filters' = ~show_filters
                 /\ focus' = IF show_filters THEN "Table" ELSE focus
                 /\ UNCHANGED <<listVars, excluded, seen, cursor, search_query,
                                scroll_locked, selected>>

\* Slip: unlocking the scroll leaves the selection where it was.
ToggleScrollInPlace == /\ Browsing
                       /\ scroll_locked' = ~scroll_locked
                       /\ UNCHANGED <<listVars, filterVars, search_query, selected,
                                      focus>>

ToggleScroll == /\ Browsing
                /\ scroll_locked' = ~scroll_locked
                /\ selected' = IF scroll_locked THEN Latest(filtered_logs) ELSE selected
                /\ UNCHANGED <<listVars, filterVars, search_query, focus>>

Move == /\ Browsing
        /\ IF focus = "Table"
           THEN /\ scroll_locked' = TRUE
                /\ selected' \in {Below(selected, Len(filtered_logs)), Above(selected)}
                /\ UNCHANGED cursor
           ELSE /\ \/ MoveCursor(focus, Below(cursor[focus], Cardinality(seen[focus])))
                   \/ MoveCursor(focus, Above(cursor[focus]))
                /\ UNCHANGED <<scroll_locked, selected>>
        /\ UNCHANGED <<listVars, excluded, seen, show_filters, search_query, focus>>

Toggle(d, v) == /\ excluded' = [excluded EXCEPT ![d] = SymDiff(@, {v})]
                /\ UNCHANGED <<logs, search_query>>
                /\ Refresh
                /\ UNCHANGED <<seen, cursor, show_filters, scroll_locked, focus>>

ToggleSeverity(sev) == Browsing /\ Toggle("severity", sev)

\* toggle_selection: the entry of the sorted list at the cursor, if there is one.
ToggleSelection ==
  /\ Browsing
  /\ focus \in Dims
  /\ \E v \in seen[focus] :
       /\ Cardinality({w \in seen[focus] : w < v}) = cursor[focus]
       /\ Toggle(focus, v)

\* Puts the selection on match i; indexing with a stale one panics.
GoToMatch(i) ==
  /\ search_matches # <<>>
  /\ current_match_idx' = i
  /\ scroll_locked' = TRUE
  /\ IF i < Len(search_matches)
     THEN selected' = search_matches[i + 1] /\ UNCHANGED panicked
     ELSE panicked' = TRUE /\ UNCHANGED selected
  /\ UNCHANGED <<logs, filtered_logs, search_matches, filterVars, search_query, focus>>

NextMatch == /\ phase = "key" /\ phase' = "draw"
             /\ visible /\ UNCHANGED visible
             /\ focus # "Search"
             /\ GoToMatch(IF current_match_idx = None THEN 0
                          ELSE (current_match_idx + 1) % Len(search_matches))

PrevMatch == /\ phase = "key" /\ phase' = "draw"
             /\ visible /\ UNCHANGED visible
             /\ focus # "Search"
             /\ GoToMatch(IF current_match_idx \in {None, 0} THEN Len(search_matches) - 1
                          ELSE current_match_idx - 1)

-----------------------------------------------------------------------------

KeyStep == \/ \E f \in Focuses : SwitchFocus(f)
           \/ \E c \in Chars : TypeChar(c)
           \/ Backspace \/ Escape \/ EnterOrSlash \/ Quit \/ NoKey
           \/ ToggleFilters \/ ToggleScroll \/ Move
           \/ \E sev \in SeverityKeys : ToggleSeverity(sev)
           \/ ToggleSelection \/ NextMatch \/ PrevMatch

Terminated == panicked /\ UNCHANGED vars

Next == \/ /\ ~panicked
           /\ \/ Draw \/ HighlightPanics \/ Receive \/ LoadCsv
              \/ SessionChanges \/ KeyStep
        \/ Terminated

Spec == Init /\ [][Next]_vars

-----------------------------------------------------------------------------
(* Properties *)

Index == Nat \cup {None}

TypeOK == /\ phase \in {"draw", "receive", "key"}
          /\ visible \in BOOLEAN /\ scroll_locked \in BOOLEAN
          /\ show_filters \in BOOLEAN /\ panicked \in BOOLEAN
          /\ logs \in Seq(Logs)
          /\ filtered_logs \in Seq(Nat) /\ search_matches \in Seq(Nat)
          /\ excluded \in [Dims -> SUBSET Nat] /\ seen \in [Dims -> SUBSET Nat]
          /\ search_query \in Queries
          /\ current_match_idx \in Index /\ selected \in Index
          /\ cursor \in [Dims -> Index]
          /\ focus \in Focuses

(***************************************************************************)
(* What is drawn and walked is what the filters and the search ask for:    *)
(* the rows are the logs that pass every filter, in order, the matches are *)
(* the rows that the search finds, and there is a current match exactly    *)
(* when there is a match.  ui::draw indexes logs with these rows.          *)
(***************************************************************************)
Lists(c, T) == /\ ToSet(c) = T
               /\ \A i, j \in 1..Len(c) : i < j => c[i] < c[j]

ViewCoherent ==
  /\ Lists(filtered_logs, Passing(logs, excluded))
  /\ Lists(search_matches, Matching(logs, filtered_logs, search_query))
  /\ ~panicked => (current_match_idx = None <=> search_matches = <<>>)

(***************************************************************************)
(* While the scroll is not locked, the latest visible log is selected,     *)
(* whatever arrived, was filtered or was loaded since it was unlocked.     *)
(***************************************************************************)
FollowsLatest ==
  ~scroll_locked /\ filtered_logs # <<>> => selected = Len(filtered_logs) - 1

(***************************************************************************)
(* n and p move across the matches (docs/logging_system.md): where no      *)
(* highlight slips, no key ends the program with an index out of bounds.   *)
(***************************************************************************)
NoPanic == ~panicked
=============================================================================
