----------------------------- MODULE SecretScan -----------------------------
(***************************************************************************)
(* 09-devsecops-scanner/scanner.py: a tree of files is walked, git says    *)
(* which of them it ignores, the others are read and searched line by      *)
(* line, and the exit code tells what came of it.  The tree belongs to     *)
(* somebody who may still be editing it, and may hold directories that     *)
(* cannot be listed.                                                       *)
(***************************************************************************)
EXTENDS Integers, Sequences

CONSTANTS Path,       \* files that the tree may hold
          Directory,  \* its directories, each as the set of files it may hold
          Excluded,   \* by name, by suffix or as a symbolic link
          Ignored,    \* untracked and matched by .gitignore
          Rule, Grouped,  \* rules, and those with a value_group
          Content,    \* what a file may hold
          MaxEdits    \* bound on changes of the tree during the scan

ASSUME SecretScanAssumption ==
    /\ UNION Directory = Path /\ Directory # {}
    /\ \A d, e \in Directory : d # e => d \cap e = {}
    /\ Excluded \cup Ignored \subseteq Path /\ Grouped \subseteq Rule /\ MaxEdits \in Nat
    /\ \A c \in Content : c.big \in BOOLEAN /\ c.binary \in BOOLEAN
         /\ \A n \in DOMAIN c.lines : c.lines[n].allow \in BOOLEAN
              /\ c.lines[n].hits \in [Rule -> Seq({"placeholder", "value"})]

VARIABLES tree,      \* the files that exist and what they hold
          git,       \* whether the root has a .git, and what becomes of check-ignore
          unlisted,  \* directories the walk has not come to
          skipped,   \* history: what may lie in those it could not list
          todo,      \* candidates not read yet
          ignored,   \* those git named
          stage,     \* "idle", "walk", "git", "files", "exit"
          sized,     \* the file whose size has been checked, or none of them
          findings,
          exitCode,  \* -1 while it runs
          seen,      \* history: what was read of each candidate
          trouble,   \* history: something kept the scan from completing
          edits

walk        == <<unlisted, skipped>>
scannerVars == <<tree, git, walk, todo, ignored, stage, sized, findings, exitCode, seen, trouble, edits>>
\* Mutant of Reported: the break leaves the loop at the first match of any kind.
ReportedFirst(r, hits) ==
    {k \in DOMAIN hits : k = 1 /\ ~(r \in Grouped /\ hits[k] = "placeholder")}

\* Of the matches of rule r in a line, the one that is reported: placeholders
\* are passed over, and the break leaves the loop over the matches alone.
Reported(r, hits) ==
    LET real == {k \in DOMAIN hits : ~(r \in Grouped /\ hits[k] = "placeholder")}
    IN {k \in real : \A j \in real : k <= j}

FindingsIn(f, c) ==
    {<<f, n, r>> : n \in {m \in DOMAIN c.lines : ~c.lines[m].allow}, r \in Rule}
FindingsOf(f, c) ==
    {x \in FindingsIn(f, c) : Reported(x[3], c.lines[x[2]].hits[x[3]]) # {}}

SecretInit ==
    /\ tree = <<>> /\ git = <<>>
    /\ unlisted = {} /\ skipped = {}
    /\ todo = {} /\ ignored = {}
    /\ stage = "idle" /\ sized = {}
    /\ findings = {} /\ exitCode = -1
    /\ seen = <<>> /\ trouble = FALSE /\ edits = 0

Exit(code) == stage' = "exit" /\ exitCode' = code

\* The scanner is pointed at a directory.
Begin ==
    /\ stage = "idle" /\ stage' = "walk"
    /\ tree' \in UNION {[D -> Content] : D \in SUBSET Path}
    /\ git' \in [top : BOOLEAN, answer : {"answers", "refuses", "missing", "late"}]
    /\ unlisted' = Directory
    /\ UNCHANGED <<skipped, todo, ignored, sized, findings, exitCode, seen, trouble, edits>>

\* os.walk comes to directory d and lists it, or cannot: without an onerror it
\* passes over that directory and all below it, and goes on.
Walk(d) ==
    /\ stage = "walk" /\ d \in unlisted
    /\ unlisted' = unlisted \ {d}
    /\ \/ todo' = todo \cup ((d \cap DOMAIN tree) \ Excluded) /\ UNCHANGED skipped
       \/ skipped' = skipped \cup d /\ UNCHANGED todo
    /\ stage' = IF unlisted' = {} THEN "git" ELSE "walk"
    /\ UNCHANGED <<tree, git, ignored, sized, findings, exitCode, seen, trouble, edits>>

\* `git check-ignore --stdin`.  It refuses an empty list of names, as it does a
\* directory outside a repository.  A refusal or a missing git is an error if the
\* root has a .git, and a git that takes more than thirty seconds always is.
Answer == IF todo = {} /\ git.answer = "answers" THEN "refuses" ELSE git.answer

CheckIgnore ==
    /\ stage = "git"
    /\ IF Answer = "answers"
         THEN stage' = "files" /\ ignored' = todo \cap Ignored /\ UNCHANGED exitCode
       ELSE IF Answer # "late" /\ ~git.top
         THEN stage' = "files" /\ UNCHANGED <<ignored, exitCode>>
       ELSE Exit(2) /\ UNCHANGED ignored
    /\ trouble' = (git.answer = "late" \/ (git.top /\ git.answer # "answers"))
    /\ UNCHANGED <<tree, git, walk, todo, sized, findings, seen, edits>>

Pass(f) ==
    /\ stage = "files" /\ f \in todo \cap ignored
    /\ todo' = todo \ {f}
    /\ UNCHANGED <<tree, git, walk, ignored, stage, sized, findings, exitCode, seen, trouble, edits>>

\* A file that is gone or cannot be read, and one above five megabytes, end the
\* scan.
Size(f) ==
    /\ stage = "files" /\ sized = {} /\ f \in todo \ ignored
    /\ IF f \notin DOMAIN tree \/ tree[f].big THEN Exit(2) /\ trouble' = TRUE /\ UNCHANGED sized
       ELSE sized' = {f} /\ UNCHANGED <<stage, exitCode, trouble>>
    /\ UNCHANGED <<tree, git, walk, todo, ignored, findings, seen, edits>>

Read(f) ==
    /\ stage = "files" /\ sized = {f}
    /\ IF f \notin DOMAIN tree
         THEN Exit(2) /\ trouble' = TRUE /\ UNCHANGED <<todo, findings, seen>>
         ELSE /\ findings' = findings \cup IF tree[f].binary THEN {} ELSE FindingsOf(f, tree[f])
              /\ seen' = [g \in DOMAIN seen \cup {f} |-> IF g = f THEN tree[f] ELSE seen[g]]
              /\ todo' = todo \ {f}
              /\ UNCHANGED <<stage, exitCode, trouble>>
    /\ sized' = {}
    /\ UNCHANGED <<tree, git, walk, ignored, edits>>

ReadFails(f) ==
    /\ stage = "files" /\ sized = {f}
    /\ Exit(2) /\ trouble' = TRUE
    /\ UNCHANGED <<tree, git, walk, todo, ignored, sized, findings, seen, edits>>

Finish ==
    /\ stage = "files" /\ todo = {}
    /\ Exit(IF findings = {} THEN 0 ELSE 1)
    /\ UNCHANGED <<tree, git, walk, todo, ignored, sized, findings, seen, trouble, edits>>

\* Somebody writes or removes a file.
Edit(f) ==
    /\ edits < MaxEdits /\ stage \notin {"idle", "exit"}
    /\ edits' = edits + 1
    /\ \/ \E c \in Content : tree' = [g \in DOMAIN tree \cup {f} |-> IF g = f THEN c ELSE tree[g]]
       \/ tree' = [g \in DOMAIN tree \ {f} |-> tree[g]]
    /\ UNCHANGED <<git, walk, todo, ignored, stage, sized, findings, exitCode, seen, trouble>>

SecretNext ==
    \/ Begin \/ CheckIgnore \/ Finish
    \/ \E d \in Directory : Walk(d)
    \/ \E f \in Path : Pass(f) \/ Size(f) \/ Read(f) \/ ReadFails(f) \/ Edit(f)

SecretSpec == SecretInit /\ [][SecretNext]_scannerVars

-----------------------------------------------------------------------------
SecretTypeOK ==
    /\ DOMAIN tree \subseteq Path /\ DOMAIN seen \subseteq Path
    /\ todo \cup ignored \cup skipped \subseteq Path /\ unlisted \subseteq Directory
    /\ stage \in {"idle", "walk", "git", "files", "exit"}
    /\ sized \in SUBSET Path /\ exitCode \in -1..2 /\ trouble \in BOOLEAN /\ edits \in 0..MaxEdits

\* A line is a leak when it is not exempted and some rule matches something that
\* is not a placeholder to that rule.
Leaks(c) ==
    \E n \in DOMAIN c.lines, r \in Rule :
        /\ ~c.binary /\ ~c.lines[n].allow
        /\ \E k \in DOMAIN c.lines[n].hits[r] : r \notin Grouped \/ c.lines[n].hits[r][k] = "value"

\* The exit code tells the truth about what was read, however git, the disk and
\* an editor behave: 0 means that no error stopped the scan, that every candidate in
\* a directory it could list has been read and none has a leak, 1 that one has, 2
\* that an error did stop it; so does an empty list of candidates in a repository
\* (scanner.py:27-59, 63-74, README.md:12-14).  CleanIsComplete is about the rest.
ExitCodeTells ==
    /\ exitCode = 0 => ~trouble /\ \A f \in DOMAIN seen : ~Leaks(seen[f])
    /\ (exitCode = 0 /\ edits = 0) =>
          DOMAIN tree \ (Excluded \cup Ignored \cup skipped) \subseteq DOMAIN seen
    /\ exitCode = 1 => ~trouble /\ \E f \in DOMAIN seen : Leaks(seen[f])
    /\ exitCode = 2 => trouble \/ (git.top /\ todo = {})

\* README.md:12 and 14: 0 is a scan that was completed, and what keeps it from that,
\* reading included, is 2.  So with nobody at work on the tree, 0 means that every
\* candidate was read (scanner.py:21).
CleanIsComplete ==
    (exitCode = 0 /\ edits = 0) => DOMAIN tree \ (Excluded \cup Ignored) \subseteq DOMAIN seen

=============================================================================
