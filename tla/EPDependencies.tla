---------------------------- MODULE EPDependencies ----------------------------
(***************************************************************************)
(* Which files an EP needs: EPDependenciesConfig resolves the dependencies *)
(* the EPs have on one another, EPDependenciesManager keeps the files for  *)
(* the configurations of a run.                                            *)
(*                                                                         *)
(* An entry is [files, dependencies]: a sequence of [name, condition] each,*)
(* of files and of other EPs. The entries are a function from EPs.         *)
(***************************************************************************)
EXTENDS EPConditions, Sequences, SequencesExt

CONSTANTS
  Dependencies, (* the entries of the file of EP dependencies              *)
  NameOrder     (* their names in order                                    *)

NameIn(files, name) == \E i \in DOMAIN files : files[i].name = name

(* The first file of a name stays.                                         *)
AddExtraFiles(files, extra) ==
  FoldLeft(LAMBDA fs, f : IF NameIn(fs, f.name) THEN fs ELSE Append(fs, f), files, extra)

Gated(items, inherited) ==
  [i \in DOMAIN items |->
     [items[i] EXCEPT !.condition = CombineConditions(inherited, @)]]

(* The search goes from an EP to those it depends on, and to none twice;   *)
(* s is [files, visited, stack, ok]: collected_files, visited,             *)
(* recursion_stack and what was returned.                                  *)
RECURSIVE CollectExtraDependencies(_, _, _, _)
CollectExtraDependencies(entries, ep, inherited, s) ==
  IF ep \in s.stack \/ (ep \notin s.visited /\ ep \notin DOMAIN entries)
  THEN [s EXCEPT !.ok = FALSE]
  ELSE IF ep \in s.visited THEN s
  ELSE LET entered == [files   |-> AddExtraFiles(s.files, Gated(entries[ep].files, inherited)),
                       visited |-> s.visited \cup {ep},
                       stack   |-> s.stack \cup {ep},
                       ok      |-> TRUE]
           Follow(t, dep) == IF t.ok
                             THEN CollectExtraDependencies(entries, dep.name, dep.condition, t)
                             ELSE t
           left == FoldLeft(Follow, entered, Gated(entries[ep].dependencies, inherited))
       IN  [left EXCEPT !.stack = @ \ {ep}]

(* from_json: the EPs in the order of their names; each finds the files of *)
(* those before it extended already. The first failure ends it.            *)
Resolve(entries, order) ==
  FoldLeft(LAMBDA r, ep :
             IF ~r.ok THEN r
             ELSE LET s == CollectExtraDependencies(r.entries, ep, Always,
                             [files |-> << >>, visited |-> {}, stack |-> {}, ok |-> TRUE])
                  IN  IF s.ok
                      THEN [r EXCEPT !.entries[ep].files = AddExtraFiles(@, s.files)]
                      ELSE [r EXCEPT !.ok = FALSE],
           [entries |-> entries, ok |-> TRUE], order)

(* What the file of dependencies becomes when it is read.                  *)
Resolved == Resolve(Dependencies, NameOrder)

FilterFiles(files, configs) == SelectSeq(files, LAMBDA f : IsKept(f, configs))

NamesOf(files) == {files[i].name : i \in DOMAIN files}

(* Initialize: the files of an EP the program was built with.              *)
ResolvedFileNames(resolved, ep, built, configs) ==
  IF ep \in DOMAIN resolved.entries /\ ep \in built /\ resolved.ok
  THEN NamesOf(FilterFiles(resolved.entries[ep].files, configs))
  ELSE {}

=============================================================================
