------------------------------- MODULE Bookmarks -------------------------------
(***************************************************************************)
(* Visible bookmarks that outlive a session: package bm, hooked up by      *)
(* setup-bookmarks.el.  A file's bookmarks are overlays while it is        *)
(* visited, an entry of the repository in memory once its buffer is        *)
(* killed, and an entry of the repository on disk once Emacs exits.  An    *)
(* entry finds its places again by position when the file has the size it  *)
(* had, else by the text round them.                                       *)
(***************************************************************************)
EXTENDS Naturals, FiniteSets, SequencesExt

CONSTANTS
    Files,          \* the files there are to visit
    Lines,          \* the lines of text, longer than the 16 characters of context
                    \* that are kept, and all of one length
    Texts,          \* what a file may contain: lists of lines, none twice
    RepositorySize  \* bm-repository-size

Distinct(s) == \A m, n \in DOMAIN s : s[m] = s[n] => m = n

ASSUME TextsAssumption == \A s \in Texts : s \in Seq(Lines) /\ Len(s) > 0 /\ Distinct(s)
ASSUME RepositorySizeAssumption == RepositorySize \in Nat \ {0}

VARIABLES
    running,    \* whether Emacs is
    text,       \* what each file contains
    open,       \* the files visited
    marks,      \* the bookmarks of each buffer: numbers of lines
    repository, \* `bm-repository', oldest entry first
    disk,       \* the list in `bm-repository-file', empty if it cannot be read
    wanted,     \* history: the lines the user has bookmarked, session after session
    newest      \* history: where the newest bookmarks of each file are kept

vars == <<running, text, open, marks, repository, disk, wanted, newest>>

Places == {"buffer", "repository", "disk", "lost"}

Init ==
    /\ running = FALSE
    /\ text \in [Files -> Texts]
    /\ open = {}
    /\ marks = [f \in Files |-> {}]
    /\ repository = <<>>
    /\ disk = <<>>
    /\ wanted = [f \in Files |-> {}]
    /\ newest = [f \in Files |-> "disk"]

\* The entry of f in repository r, if there is one, and the lines it is about.
EntryOf(r, f) == {e \in Range(r) : e.file = f}
EntryLines(r, f) == UNION {{b.after : b \in Range(e.bookmarks)} : e \in EntryOf(r, f)}
BufferLines(f, ms) == {text[f][n] : n \in ms}

\* The elements of s that are in S, in their order.
Only(s, S) ==
    FoldLeft(LAMBDA kept, x : IF x \in S THEN Append(kept, x) ELSE kept, <<>>, s)

-----------------------------------------------------------------------------
\* `bm-repository-load', as bm is loaded and again on after-init-hook; that
\* the file cannot be read is passed over.
Start ==
    /\ ~running
    /\ running' = TRUE
    /\ repository' = disk
    /\ UNCHANGED <<text, open, marks, disk, wanted, newest>>

\* Another program changes a file that is not visited.
Change(f) ==
    /\ f \notin open
    /\ \E s \in Texts \ {text[f]} : text' = [text EXCEPT ![f] = s]
    /\ newest' = [newest EXCEPT ![f] = "lost"]
    /\ UNCHANGED <<running, open, marks, repository, disk, wanted>>

\* `bm-get-position-from-context': the text after the bookmark is searched for
\* from point on, the text before it backward from there, or from point if
\* that failed; 0 for nil.  Nothing is before a bookmark on the first line,
\* and that is found at once.
FromContext(b, s, point) ==
    LET after  == {n \in point..Len(s) : s[n] = b.after}
        from   == IF after = {} THEN point ELSE CHOOSE n \in after : TRUE
        before == IF b.before = {} THEN {from}
                  ELSE {n + 1 : n \in {m \in 1..(from - 1) : s[m] \in b.before}}
    IN  IF before # {} THEN CHOOSE n \in before : TRUE
        ELSE IF after # {} THEN from ELSE 0

\* `bm-buffer-restore-2': one bookmark after the other, each from the place of
\* the one before.  A position of nil is an error, which ends the loop.
RestoreEntry(e, s) ==
    FoldLeft(LAMBDA done, b :
               LET n == IF e.size = Len(s) THEN b.position
                        ELSE FromContext(b, s, done.point)
               IN  IF done.failed \/ n = 0 THEN [done EXCEPT !.failed = TRUE]
                   ELSE [point |-> n, found |-> done.found \cup {n}, failed |-> FALSE],
             [point |-> 1, found |-> {}, failed |-> FALSE], e.bookmarks).found

\* Mutant: the text is searched for even if the file has the size it had.
RestoredByText(f) ==
    UNION {RestoreEntry([e EXCEPT !.size = 0], text[f]) : e \in EntryOf(repository, f)}

Restored(f) ==
    UNION {RestoreEntry(e, text[f]) : e \in EntryOf(repository, f)}

\* `bm-buffer-restore', on find-file-hook.  After a loss, what is restored is
\* all that the user still sees.
Visit(f) ==
    /\ running /\ f \notin open
    /\ open' = open \cup {f}
    /\ marks' = [marks EXCEPT ![f] = Restored(f)]
    /\ \/ newest[f] # "lost" /\ UNCHANGED <<wanted, newest>>
       \/ /\ newest[f] = "lost"
          /\ wanted' = [wanted EXCEPT ![f] = BufferLines(f, Restored(f))]
          /\ newest' = [newest EXCEPT ![f] = "buffer"]
    /\ UNCHANGED <<running, text, repository, disk>>

\* `bm-toggle'.
Toggle(f, n) ==
    LET ms == IF n \in marks[f] THEN marks[f] \ {n} ELSE marks[f] \cup {n} IN
    /\ f \in open
    /\ marks' = [marks EXCEPT ![f] = ms]
    /\ wanted' = [wanted EXCEPT ![f] = BufferLines(f, ms)]
    /\ newest' = [newest EXCEPT ![f] = "buffer"]
    /\ UNCHANGED <<running, text, open, repository, disk>>

\* `bm-lists': the bookmarks above point, nearest first, then those from it on.
Listed(f, point) ==
    Only([i \in 1..(point - 1) |-> point - i], marks[f])
      \o Only([i \in 1..(Len(text[f]) + 1 - point) |-> point + i - 1], marks[f])

Bookmark(s, n) ==
    [position |-> n, before |-> IF n = 1 THEN {} ELSE {s[n - 1]}, after |-> s[n]]

Entry(f, point) ==
    LET listed == Listed(f, point) IN
    [file |-> f, size |-> Len(text[f]),
     bookmarks |-> [i \in 1..Len(listed) |-> Bookmark(text[f], listed[i])]]

\* `bm-repository-remove'.
Without(f) == Only(repository, {e \in Range(repository) : e.file # f})

\* Mutant: the length is compared before the entry is added.
SaveBufferOneMore(f, point) ==
    LET others == Without(f)
        all    == IF marks[f] = {} THEN others ELSE Append(others, Entry(f, point))
    IN  SubSeq(all, IF Len(others) > RepositorySize THEN 2 ELSE 1, Len(all))

\* `bm-buffer-save': the entry is removed and, if there are bookmarks, added
\* at the end; the oldest goes when there are too many.
SaveBuffer(f, point) ==
    LET others == Without(f)
        all    == IF marks[f] = {} THEN others ELSE Append(others, Entry(f, point))
    IN  SubSeq(all, IF Len(all) > RepositorySize THEN 2 ELSE 1, Len(all))

Evicted(r) == {e.file : e \in Range(repository)} \ {e.file : e \in Range(r)}

\* kill-buffer-hook, with point anywhere, the end of the buffer included.
Kill(f) ==
    /\ f \in open
    /\ \E point \in 1..(Len(text[f]) + 1) : repository' = SaveBuffer(f, point)
    /\ open' = open \ {f}
    /\ marks' = [marks EXCEPT ![f] = {}]
    /\ newest' = [g \in Files |->
                    IF g = f THEN IF newest[f] = "buffer" THEN "repository" ELSE newest[f]
                    ELSE IF g \notin Evicted(repository') THEN newest[g]
                    ELSE IF g \in open THEN "buffer" ELSE "lost"]
    /\ UNCHANGED <<running, text, disk, wanted>>

Stop(there) ==
    /\ running
    /\ running' = FALSE
    /\ open' = {}
    /\ marks' = [f \in Files |-> {}]
    /\ repository' = <<>>
    /\ newest' = [f \in Files |-> IF newest[f] \in there THEN "disk" ELSE "lost"]
    /\ UNCHANGED <<text, wanted>>

\* `bm-repository-save', on kill-emacs-hook; no buffer is killed.
Exit == Stop({"repository", "disk"}) /\ disk' = repository

\* Emacs is killed, or the file cannot be written, which is passed over.
Crash == Stop({"disk"}) /\ UNCHANGED disk

\* Emacs is killed while it writes: the file cannot be read any more.
CrashInSave == Stop({}) /\ disk' = <<>>

Next ==
    \/ Start \/ Exit \/ Crash \/ CrashInSave
    \/ \E f \in Files :
         \/ Change(f) \/ Visit(f) \/ Kill(f)
         \/ \E n \in 1..Len(text[f]) : Toggle(f, n)

Spec == Init /\ [][Next]_vars

-----------------------------------------------------------------------------
Marks   == [position : Nat, before : SUBSET Lines, after : Lines]
Entries == [file : Files, size : Nat, bookmarks : Seq(Marks)]

\* The repository, in memory and on disk, has one entry for a file at most,
\* none without bookmarks, and no more entries than its size.
TypeOK ==
    /\ running \in BOOLEAN
    /\ text \in [Files -> Texts]
    /\ open \subseteq Files
    /\ marks \in [Files -> SUBSET Nat]
    /\ \A f \in Files : marks[f] \subseteq (IF f \in open THEN 1..Len(text[f]) ELSE {})
    /\ \A r \in {repository, disk} :
         /\ r \in Seq(Entries) /\ Len(r) <= RepositorySize
         /\ \A e \in Range(r) :
              /\ e.bookmarks # <<>>
              /\ \A b \in Range(e.bookmarks) : b.position \in 1..e.size
         /\ \A m, n \in DOMAIN r : r[m].file = r[n].file => m = n
    /\ wanted \in [Files -> SUBSET Lines]
    /\ newest \in [Files -> Places]

\* A file that only Emacs has changed keeps the bookmarks the user gave it,
\* wherever they are kept and however often they move: from the buffer to the
\* repository, the disk, the next session's repository and buffer.  They are
\* lost in no other way than with the session that they were in, or when the
\* repository has no room for them.
BookmarksKept ==
    \A f \in Files : newest[f] # "lost" =>
      /\ newest[f] = "buffer" => f \in open
      /\ f \in open => BufferLines(f, marks[f]) = wanted[f]
      /\ newest[f] # "buffer" /\ running => EntryLines(repository, f) = wanted[f]
      /\ newest[f] = "disk" => EntryLines(disk, f) = wanted[f]
=============================================================================
