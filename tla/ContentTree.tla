------------------------------- MODULE ContentTree -------------------------------
(***************************************************************************)
(* The content tab of the details panel: the files of a torrent as a tree  *)
(* of folders with totals, filtered and partly expanded.                   *)
(*                                                                         *)
(* A poll rebuilds the tree from the list of files; typing in the filter   *)
(* and the toggles of the folders change what is shown of it. The filter   *)
(* is stored at once and takes effect when its timer fires, or with        *)
(* whatever refreshes the tab before.                                      *)
(*                                                                         *)
(* A path is a sequence of names, and a filter is a name: it matches the   *)
(* paths that contain it. The progress of a file is a fraction. Floating-  *)
(* point numbers are fractions with a common denominator; the rounding of  *)
(* their sums and products is left out. Availability is averaged as        *)
(* progress is, over the children that have one, and is left out, as is    *)
(* the order of rows.                                                      *)
(***************************************************************************)
EXTENDS Integers, Sequences, FiniteSets, Functions

CONSTANTS
    Paths,        \* the paths of the files of a torrent
    Size,         \* their sizes
    Whole,        \* the denominator of the progress of files
    Filters       \* names to filter by; NoFilter is one of them

NoFilter == ""

ASSUME PathsAssumption == IsFiniteSet(Paths) /\ Paths \subseteq Seq(STRING) \ {<<>>}
ASSUME SizeAssumption == Size \in [Paths -> Nat]
ASSUME WholeAssumption == Whole \in Nat \ {0}
ASSUME FiltersAssumption == NoFilter \in Filters

VARIABLES
    files,          \* the files last polled
    contentFilter,  \* Content.Filter, which follows the filter entry
    contentTimer,   \* contentFilterTimer runs
    refreshing,     \* a refresh of the tab is in the UI queue
    expanded,       \* Content.Expanded: the folders that are open
    rows            \* the rows of the list, and the filter they were made for

contentVars == <<files, contentFilter, contentTimer, refreshing, expanded, rows>>

Ignored == 0
Mixed   == -1
Priorities == {Ignored, 1, 6}

\* Of a file, progress / Whole is downloaded.
File == [progress : 0 .. Whole, priority : Priorities]

-----------------------------------------------------------------------------
(* The tree. *)

\* buildContentTree: a node is a path, of a file or of a folder. One path may be both.
FolderPaths(path) == {SubSeq(path, 1, n) : n \in 1 .. Len(path) - 1}

FileNodes   == [path : Paths, isDir : {FALSE}]
FolderNodes == [path : UNION {FolderPaths(p) : p \in Paths}, isDir : {TRUE}]
Nodes       == FileNodes \cup FolderNodes

Parent(node) == [path |-> SubSeq(node.path, 1, Len(node.path) - 1), isDir |-> TRUE]

Children(node) == {c \in Nodes : node = Parent(c)}

IsWithin(node, folder) ==
    node = folder \/ (folder.isDir /\ folder.path \in FolderPaths(node.path))

\* Truncated, so that nothing may remain of a file that is not complete.
Remaining(f, size) == (size * (Whole - f.progress)) \div Whole

\* The progress of a node is parts / whole.
Leaf(f, size) == [size |-> size, remaining |-> Remaining(f, size), priority |-> f.priority,
                  parts |-> f.progress, whole |-> Whole]

\* What the children, given with their totals, make the priority of a folder.
CommonPriority(of) ==
    IF \E p \in Priorities : \A c \in DOMAIN of : of[c].priority = p
    THEN of[CHOOSE c \in DOMAIN of : TRUE].priority ELSE Mixed

\* A common denominator.
Product(f) == FoldFunction(LAMBDA n, product : n * product, 1, f)

\* The average of the progress of nodes, weighted by their sizes; of nothing, it is full.
Average(of, nodes) ==
    LET size  == SumFunction([c \in nodes |-> of[c].size])
        whole == Product([c \in nodes |-> of[c].whole])
        parts == [c \in nodes |-> of[c].size * of[c].parts * (whole \div of[c].whole)]
    IN  IF size = 0 THEN [parts |-> 1, whole |-> 1]
                    ELSE [parts |-> SumFunction(parts), whole |-> whole * size]

Combine(of, counted) ==
    LET average == Average(of, counted)
    IN  [size      |-> SumFunction([c \in DOMAIN of |-> of[c].size]),
         remaining |-> SumFunction([c \in counted |-> of[c].remaining]),
         priority  |-> CommonPriority(of),
         parts     |-> average.parts, whole |-> average.whole]

\* Variant: the progress counts the files that are not downloaded, too.
FolderWithIgnored(of) ==
    LET active  == {c \in DOMAIN of : of[c].priority # Ignored}
        average == Average(of, DOMAIN of)
    IN  [Combine(of, active) EXCEPT !.parts = average.parts, !.whole = average.whole]

\* recalculateContentNode: children that are not downloaded count for the size only. A
\* folder of which some files are not downloaded counts, and with its whole size.
Folder(of) == Combine(of, {c \in DOMAIN of : of[c].priority # Ignored})

Totals(fs) ==
    LET totals[n \in Nodes] ==
            IF n.isDir THEN Folder([c \in Children(n) |-> totals[c]])
                       ELSE Leaf(fs[n.path], Size[n.path])
    IN  totals

-----------------------------------------------------------------------------
(* What is shown of it. *)

PathMatches(path, filter) ==
    filter = NoFilter \/ \E i \in DOMAIN path : path[i] = filter

\* Variant: a folder is kept for its own path only.
SubtreeMatchesItself(node, filter) == PathMatches(node.path, filter)

SubtreeMatches(node, filter) ==
    \E n \in Nodes : IsWithin(n, node) /\ PathMatches(n.path, filter)

\* contentRowExpanded.
RowExpanded(node, filter, open) ==
    node.isDir /\ (filter # NoFilter \/ node.path \in open)

\* visibleRows, walkVisible.
VisibleRows(filter, open) ==
    LET shown[n \in Nodes] ==
            /\ SubtreeMatches(n, filter)
            /\ Len(n.path) > 1 => /\ shown[Parent(n)]
                                  /\ RowExpanded(Parent(n), filter, open)
    IN  [filter |-> filter, nodes |-> {n \in Nodes : shown[n]}]

-----------------------------------------------------------------------------
(* The tab. *)

ContentInit ==
    /\ files = [p \in Paths |-> [progress |-> 0, priority |-> 1]]
    /\ contentFilter = NoFilter /\ contentTimer = FALSE /\ refreshing = FALSE
    /\ expanded = {}
    /\ rows = VisibleRows(NoFilter, {})

\* Refresh of the tab.
RefreshContent ==
    /\ refreshing /\ refreshing' = FALSE
    /\ rows' = VisibleRows(contentFilter, expanded)
    /\ UNCHANGED <<files, contentFilter, contentTimer, expanded>>

\* A poll brings the files, of which one has changed, and refreshes the tab.
PollContent ==
    /\ \E p \in Paths, changed \in File :
          /\ changed.progress = files[p].progress \/ changed.priority = files[p].priority
          /\ files' = [files EXCEPT ![p] = changed]
    /\ refreshing' = TRUE
    /\ UNCHANGED <<contentFilter, contentTimer, expanded, rows>>

\* setContentFilter.
SetContentFilter ==
    /\ contentFilter' \in Filters \ {contentFilter}
    /\ contentTimer' = TRUE
    /\ UNCHANGED <<files, refreshing, expanded, rows>>

ContentTimerFires ==
    /\ contentTimer /\ contentTimer' = FALSE
    /\ refreshing' = TRUE
    /\ UNCHANGED <<files, contentFilter, expanded, rows>>

\* toggleContentNode: the toggle of a row, which it only has while the rows are not
\* filtered. Until the timer fires, that may be after the filter has been typed.
ToggleContentNode ==
    /\ rows.filter = NoFilter
    /\ \E n \in rows.nodes :
          /\ n.isDir
          /\ expanded' = IF n.path \in expanded THEN expanded \ {n.path}
                                                ELSE expanded \cup {n.path}
    /\ refreshing' = TRUE
    /\ UNCHANGED <<files, contentFilter, contentTimer, rows>>

\* Another torrent is focused: filter and expansion are reset, and the tab refreshed.
ResetContent ==
    /\ contentFilter' = NoFilter /\ expanded' = {}
    /\ refreshing' = TRUE
    /\ UNCHANGED <<files, contentTimer, rows>>

ContentNext ==
    \/ RefreshContent \/ PollContent \/ SetContentFilter \/ ContentTimerFires
    \/ ToggleContentNode \/ ResetContent

\* Timers fire and the UI goroutine runs what is queued.
ContentFairness == WF_contentVars(ContentTimerFires) /\ WF_contentVars(RefreshContent)

ContentSpec == ContentInit /\ [][ContentNext]_contentVars /\ ContentFairness

-----------------------------------------------------------------------------
(* Properties. *)

\* The variables keep their types; rows are shown with the folders above them.
ContentTypeOK ==
    /\ files \in [Paths -> File]
    /\ contentFilter \in Filters
    /\ contentTimer \in BOOLEAN /\ refreshing \in BOOLEAN
    /\ expanded \subseteq {n.path : n \in FolderNodes}
    /\ rows.filter \in Filters /\ rows.nodes \subseteq Nodes
    /\ \A n \in rows.nodes : Len(n.path) > 1 => Parent(n) \in rows.nodes

\* The files below a folder, and those of them that are downloaded.
FilesBelow(d) == {p \in Paths : d.path \in FolderPaths(p)}
Active(d)     == {p \in FilesBelow(d) : files[p].priority # Ignored}

\* Some files below e are downloaded and some are not.
Mixes(e) == Active(e) # {} /\ Active(e) # FilesBelow(e)

\* recalculateContentNode: what a folder shows agrees with the files below it, at any
\* depth and whatever mix of them is not downloaded. Its size is theirs; what remains
\* is what remains of those that are downloaded, each truncated, so that nothing may
\* remain of a folder that is not complete; it is complete exactly when they are, but
\* for empty ones. Averages of averages make the average: its progress is that of the
\* bytes to download, whatever files of its own are not among them, as long as no folder
\* inside it mixes the two, as such a folder weighs too much. It has a priority of its
\* own exactly when all files have it, which decides its checkbox.
FolderAgreesWithFiles ==
    LET totals == Totals(files)
        left   == [p \in Paths |-> Remaining(files[p], Size[p])]
        done   == [p \in Paths |-> Size[p] * files[p].progress]
    IN  \A d \in FolderNodes :
        LET folder == totals[d]
        IN  /\ folder.size = SumFunctionOnSet(Size, FilesBelow(d))
            /\ folder.remaining = SumFunctionOnSet(left, Active(d))
            /\ folder.parts = folder.whole
                  <=> \A p \in Active(d) : Size[p] = 0 \/ files[p].progress = Whole
            /\ (\A e \in FolderNodes : IsWithin(e, d) /\ e # d => ~Mixes(e)) =>
                  folder.parts * (Whole * SumFunctionOnSet(Size, Active(d)))
                      = folder.whole * SumFunctionOnSet(done, Active(d))
            /\ \A k \in Priorities :
                  folder.priority = k <=> \A p \in FilesBelow(d) : files[p].priority = k

\* setContentFilter, walkVisible: the list comes to show the files that match what is
\* typed, and the folders that lead to them, closed or not.
FilterFindsFiles ==
    \A f \in Filters \ {NoFilter} :
        contentFilter = f ~>
            \/ contentFilter # f
            \/ {n.path : n \in rows.nodes \cap FileNodes} = {p \in Paths : PathMatches(p, f)}
==================================================================================
