------------------------------ MODULE PackSet ------------------------------
(***************************************************************************)
(* Packs and the pack set lock (domain/pack.py, domain/packset.py,         *)
(* application/ingest/pack_validation.py).  Authors publish, change and    *)
(* withdraw manifests; an operator freezes a mounted set into a lock and   *)
(* replays it later against the catalog of that day; anybody may have      *)
(* edited the lock file in between.                                        *)
(*                                                                         *)
(* A pack is a number in the sort order of pack ids.  A manifest is        *)
(* [kind, deps, read, write]; deps is a sequence of [pack, required].  The *)
(* digest of a manifest is the manifest: the hash keeps them apart.        *)
(***************************************************************************)
EXTENDS Ordering, SequencesExt

CONSTANTS Candidates,    \* pack -> the manifests its authors publish
          RevisionIds,   \* revisions an operator writes into a lock, "" among them
          MaxEdits,      \* edits of the lock file
          Refused        \* PackBoundaryError or PackSetLockError

VARIABLES catalog,       \* the manifests available, by pack
          lock,          \* the lock file, Refused while there is none
          frozen,        \* the manifests and revisions it was built from
          edits

pvars == <<catalog, lock, frozen, edits>>

PackIds == DOMAIN Candidates
Dependencies == [pack : Int, required : BOOLEAN]

ASSUME PackAssumption ==
  /\ IsFiniteSet(PackIds) /\ PackIds \subseteq Int
  /\ \A p \in PackIds : \A m \in Candidates[p] : m.deps \in Seq(Dependencies)

Sub(f, S) == [x \in S |-> f[x]]
_STANDARD_LAYER_RANK == [common |-> 0, domain |-> 1, project |-> 2]

\* KnowledgePackValidator.validate beyond the schema.
validate_manifest(p, m) ==
  /\ p \in m.read
  /\ m.write \subseteq m.read
  /\ \A i \in DOMAIN m.deps : m.deps[i].required => m.deps[i].pack \in m.read

_validate_catalog(manifests) == \A p \in DOMAIN manifests : validate_manifest(p, manifests[p])

has_duplicate_dependency(m) ==
  \E i, j \in DOMAIN m.deps : i # j /\ m.deps[i].pack = m.deps[j].pack

\* The mounted targets in the order of their ids; the others leave no trace.
_resolved_dependencies(m, mounted) ==
  LET targets == {d \in Range(m.deps) : d.pack \in mounted}
  IN  InOrder(targets, [d \in targets |-> d.pack])

LayerViolation(source, target) ==
  /\ {source.kind, target.kind} \subseteq DOMAIN _STANDARD_LAYER_RANK
  /\ _STANDARD_LAYER_RANK[target.kind] >= _STANDARD_LAYER_RANK[source.kind]

adjacency(manifests) ==
  LET deps(p) == _resolved_dependencies(manifests[p], DOMAIN manifests)
  IN  [p \in DOMAIN manifests |-> [i \in DOMAIN deps(p) |-> deps(p)[i].pack]]

\* Depth-first search: 0 unseen, 1 on the stack, 2 done.  A cycle is raised:
\* nothing is visited after it.
Searches(packs) == [state : [packs -> 0..2], cycle : BOOLEAN]

\* call[p][at] is what a call of visit for p leaves of the search at.
visit_each(call, targets, at) ==
  LET after[i \in 0..Len(targets)] ==
        IF i = 0 THEN at ELSE call[targets[i]][after[i - 1]]
  IN  after[Len(targets)]

visit(adjacent, call, p, at) ==
  IF at.cycle \/ at.state[p] = 2 THEN at
  ELSE IF at.state[p] = 1 THEN [at EXCEPT !.cycle = TRUE]
  ELSE LET down == visit_each(call, adjacent[p], [at EXCEPT !.state = [at.state EXCEPT ![p] = 1]])
       IN  [down EXCEPT !.state = [down.state EXCEPT ![p] = 2]]

\* A pack is on the stack once: calls are no deeper than there are packs, and
\* one that finds the cycle.
visits(adjacent) ==
  LET packs == DOMAIN adjacent
      calls[depth \in 0..(Cardinality(packs) + 1)] ==
        [p \in packs |-> [at \in Searches(packs) |->
           IF depth = 0 THEN at ELSE visit(adjacent, calls[depth - 1], p, at)]]
  IN  calls[Cardinality(packs) + 1]

has_cycle(adjacent) ==
  LET packs == DOMAIN adjacent
  IN  visit_each(visits(adjacent), InOrder(packs, [p \in packs |-> p]),
                 [state |-> [p \in packs |-> 0], cycle |-> FALSE]).cycle

validate_pack_dependency_graph(manifests) ==
  LET mounted == DOMAIN manifests
  IN  /\ \A p \in mounted :
           /\ ~has_duplicate_dependency(manifests[p])
           /\ \A d \in Range(manifests[p].deps) :
                IF d.pack \in mounted
                THEN ~LayerViolation(manifests[p], manifests[d.pack])
                ELSE ~d.required
      /\ ~has_cycle(adjacency(manifests))

\* build_packset_lock behind the validator's validate_set.
build_packset_lock(manifests, revisions) ==
  IF \/ ~_validate_catalog(manifests)
     \/ DOMAIN manifests = {}
     \/ ~validate_pack_dependency_graph(manifests)
     \/ DOMAIN revisions # DOMAIN manifests
     \/ \E p \in DOMAIN manifests : revisions[p] = ""
  THEN Refused
  ELSE LET record(p) == [pack |-> p, revision |-> revisions[p], digest |-> manifests[p],
                         deps |-> _resolved_dependencies(manifests[p], DOMAIN manifests)]
           ids == InOrder(DOMAIN manifests, [p \in DOMAIN manifests |-> p])
       IN  [i \in DOMAIN ids |-> record(ids[i])]

Increasing(s) == \A i, j \in DOMAIN s : i < j => s[i].pack < s[j].pack

_validate_lock_record_shape(record) == record.revision # "" /\ Increasing(record.deps)

\* pack_revisions_from_lock over _lock_records: ids unique and in order.
lock_is_well_formed(l) ==
  l # <<>> /\ Increasing(l) /\ \A i \in DOMAIN l : _validate_lock_record_shape(l[i])

\* Defect: dependencies are resolved against the whole catalog.
validate_packset_lock_superset(l, manifests) ==
  LET mounted == {l[i].pack : i \in DOMAIN l}
  IN  /\ _validate_catalog(manifests)
      /\ lock_is_well_formed(l)
      /\ mounted \subseteq DOMAIN manifests
      /\ validate_pack_dependency_graph(Sub(manifests, mounted))
      /\ \A i \in DOMAIN l :
           /\ l[i].deps = _resolved_dependencies(manifests[l[i].pack], DOMAIN manifests)
           /\ l[i].digest = manifests[l[i].pack]

\* Replay: the catalog may hold more than the lock mounts.
validate_packset_lock(l, manifests) ==
  LET mounted == {l[i].pack : i \in DOMAIN l}
  IN  /\ _validate_catalog(manifests)
      /\ lock_is_well_formed(l)
      /\ mounted \subseteq DOMAIN manifests
      /\ validate_pack_dependency_graph(Sub(manifests, mounted))
      /\ \A i \in DOMAIN l :
           /\ \A j \in DOMAIN l[i].deps : l[i].deps[j].pack \in mounted
           /\ l[i].deps = _resolved_dependencies(manifests[l[i].pack], mounted)
           /\ l[i].digest = manifests[l[i].pack]
-----------------------------------------------------------------------------
PackInit ==
  /\ catalog = <<>> /\ lock = Refused
  /\ frozen = [manifests |-> <<>>, revisions |-> <<>>]
  /\ edits = 0

PublishManifest(p, m) ==
  /\ p \in DOMAIN catalog => catalog[p] # m
  /\ catalog' = [q \in DOMAIN catalog \cup {p} |-> IF q = p THEN m ELSE catalog[q]]
  /\ UNCHANGED <<lock, frozen, edits>>

Withdraw(p) ==
  /\ catalog' = Sub(catalog, DOMAIN catalog \ {p})
  /\ UNCHANGED <<lock, frozen, edits>>

\* An operator locks what is mounted; a refusal writes nothing.
BuildLock(mounted, revisions) ==
  LET built == build_packset_lock(Sub(catalog, mounted), revisions)
  IN  /\ edits = 0 /\ built # Refused
      /\ lock' = built
      /\ frozen' = [manifests |-> Sub(catalog, mounted), revisions |-> revisions]
      /\ UNCHANGED <<catalog, edits>>

\* Somebody edits one record of the lock file, or drops it.
Edited(l, i) ==
  LET With(record) == [l EXCEPT ![i] = record]
      first(d) == [l[i].deps EXCEPT ![1] = d]
  IN  {RemoveAt(l, i)}
      \cup {With([l[i] EXCEPT !.revision = r]) : r \in RevisionIds}
      \cup {With([l[i] EXCEPT !.digest = m]) : m \in Candidates[l[i].pack]}
      \cup {With([l[i] EXCEPT !.deps = Tail(l[i].deps)]) : x \in {1} \cap DOMAIN l[i].deps}
      \cup {With([l[i] EXCEPT !.deps = first([pack |-> l[i].deps[1].pack,
                                              required |-> ~l[i].deps[1].required])]) :
              x \in {1} \cap DOMAIN l[i].deps}

EditLock ==
  /\ lock # Refused /\ edits < MaxEdits
  /\ \E i \in DOMAIN lock : \E l \in Edited(lock, i) : lock' = l
  /\ edits' = edits + 1
  /\ UNCHANGED <<catalog, frozen>>

PackNext ==
  \/ \E p \in PackIds : \E m \in Candidates[p] : PublishManifest(p, m)
  \/ \E p \in DOMAIN catalog : Withdraw(p)
  \/ \E mounted \in SUBSET DOMAIN catalog, r \in RevisionIds, q \in PackIds :
       \* one revision for all, or one pack's revision forgotten
       \E named \in {mounted, mounted \ {q}} : BuildLock(mounted, [p \in named |-> r])
  \/ EditLock

PackSpec == PackInit /\ [][PackNext]_pvars
-----------------------------------------------------------------------------
\* The packs p leads to over mounted dependencies, in one or more steps: those
\* in every set that has what p names and what its members name.
Upstream(manifests, p) ==
  LET names(q) == {d.pack : d \in Range(manifests[q].deps)} \cap DOMAIN manifests
  IN  {q \in DOMAIN manifests :
         \A S \in SUBSET DOMAIN manifests :
           names(p) \subseteq S /\ (\A r \in S : names(r) \subseteq S) => q \in S}

\* A set of manifests is accepted exactly when no pack is upstream of itself,
\* no standard pack names a standard one that is not strictly upstream, no
\* target is named twice and nothing required is missing; the search of
\* validate_pack_dependency_graph finds every cycle, also one that only
\* optional dependencies close.
GraphLawIsExact ==
  validate_pack_dependency_graph(catalog) <=>
    \A p \in DOMAIN catalog :
      /\ p \notin Upstream(catalog, p)
      /\ Cardinality({d.pack : d \in Range(catalog[p].deps)}) = Len(catalog[p].deps)
      /\ \A d \in Range(catalog[p].deps) :
           /\ d.required => d.pack \in DOMAIN catalog
           /\ d.pack \in DOMAIN catalog => ~LayerViolation(catalog[p], catalog[d.pack])

\* A lock nobody edited replays exactly while every manifest it mounts is what
\* it was when the lock was built and the whole catalog is well formed: packs
\* published since, also ones an optional dependency names, change nothing.
LockFreezesMeaning ==
  lock # Refused /\ edits = 0 =>
    (validate_packset_lock(lock, catalog) <=>
       /\ _validate_catalog(catalog)
       /\ DOMAIN frozen.manifests \subseteq DOMAIN catalog
       /\ Sub(catalog, DOMAIN frozen.manifests) = frozen.manifests)

\* Whatever was edited, a lock that validates is the lock that building the
\* same packs today at the revisions it names would give: only the revisions
\* are the operator's word.
ValidLockIsARebuild ==
  lock # Refused /\ _validate_catalog(catalog) =>
    LET mounted == {lock[i].pack : i \in DOMAIN lock}
        named(p) == (CHOOSE i \in DOMAIN lock : lock[i].pack = p)
    IN  validate_packset_lock(lock, catalog) <=>
          /\ mounted \subseteq DOMAIN catalog
          /\ lock = build_packset_lock(Sub(catalog, mounted),
                                       [p \in mounted |-> lock[named(p)].revision])

\* A pack set means one thing: the graph law is the documented one, and a lock
\* validates exactly when rebuilding it today gives the same lock, also after
\* manifests changed under it or its text was edited.
PackSetIsExact == GraphLawIsExact /\ LockFreezesMeaning /\ ValidLockIsARebuild
=============================================================================
