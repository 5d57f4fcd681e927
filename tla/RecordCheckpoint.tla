--------------------------- MODULE RecordCheckpoint ---------------------------
(***************************************************************************)
(* record_checkpoint.py: a directory of immutable rows, one file per       *)
(* logical unit, closed by one merged file and one manifest.  A store is   *)
(* [records, merged, manifest]; every operator is what one call holding    *)
(* the store's lock may do to it.  Pure operators.                         *)
(***************************************************************************)
EXTENDS Sequences, Functions

CONSTANT Nothing   \* an absent file

EmptyStore == [records |-> <<>>, merged |-> Nothing, manifest |-> Nothing]

(* A row that exists is never written again: it is equal, or a conflict. *)
MayCommit(store, id, row) == id \in DOMAIN store.records => store.records[id] = row
WithRecord(store, id, row) ==
  IF id \in DOMAIN store.records THEN store
  ELSE [store EXCEPT !.records = [i \in DOMAIN @ \cup {id} |-> IF i = id THEN row ELSE @[i]]]

(* finalize, given the frozen order of the units: merge, then close.  A    *)
(* kill may fall between the two files.                                    *)
RowsOf(store, order) == [i \in DOMAIN order |-> store.records[order[i]]]
Whole(store, order) == DOMAIN store.records = { order[i] : i \in DOMAIN order }
MayMerge(store, order) ==
  Whole(store, order) /\ store.merged \in {Nothing, RowsOf(store, order)}
Merged(store, order) == [store EXCEPT !.merged = RowsOf(store, order)]
ManifestOf(store, order) == [order |-> order, rows |-> RowsOf(store, order), file |-> store.merged]
MayClose(store, order) == store.manifest \in {Nothing, ManifestOf(store, order)}
Closed(store, order) == [store EXCEPT !.manifest = ManifestOf(store, order)]

(* load_final: manifest, merged file and record files say the same. *)
Final(store) == store.manifest # Nothing
LoadsFinal(store, order) ==
  /\ Final(store) /\ store.manifest.order = order
  /\ store.manifest.file = store.merged /\ store.manifest.rows = store.merged
  /\ store.records # <<>> => \A i \in DOMAIN order :
       order[i] \in DOMAIN store.records /\ store.records[order[i]] = store.merged[i]

=============================================================================
