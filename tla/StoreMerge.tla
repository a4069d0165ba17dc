----------------------------- MODULE StoreMerge -----------------------------
(***************************************************************************)
(* The merge functions both stores share (src/osint/store/merge.py) and    *)
(* the record they keep for an id.  A report is one entity or relationship *)
(* of a finding.  Its attributes are taken path by path: the paths in      *)
(* Nested lie inside a dict that is itself an attribute, the others are    *)
(* attributes of their own.  Confidences are counted in tenths, so that a  *)
(* product of complements is exact in units of 1/Scale.                    *)
(***************************************************************************)
EXTENDS Naturals, FiniteSets, Functions

CONSTANTS
    Source,     \* the names sources give themselves in a Provenance
    ConfOf,     \* [Source -> 1..9]: base_confidence, in tenths
    Field,      \* the attribute paths
    Nested,     \* those inside a dict
    Null        \* no value: absent, or None

ASSUME MergeAssumption ==
    /\ IsFiniteSet(Source)
    /\ Cardinality(Source) >= 2
    /\ ConfOf \in [Source -> 1..9]
    /\ Nested \subseteq Field

\* A report r has: id, source, provs (provenance entries), tags, seen (collected_at)
\* and attrs \in [Field -> values and Null].  A relationship has neither tags nor attributes.

\* A report as run n makes it.
Dated(r, n) ==
    [id |-> r.id, source |-> r.source, provs |-> {<<p, n>> : p \in r.provs},
     tags |-> r.tags, seen |-> n, attrs |-> r.attrs]

\* prod(1 - c), the confidences being those of a map [Source -> 0..9].
Doubt(m) == FoldFunction(LAMBDA c, product : (10 - c) * product, 1, m)

Scale == Doubt([s \in Source |-> 0])
Larger(x, y) == IF x < y THEN y ELSE x
Smaller(x, y) == IF x < y THEN x ELSE y

\* The map of a report: its confidence for its source; 0 stands for no entry, which
\* adds as little to noisy_or as an entry of 0.0.
SourceConfidences(r) == [s \in Source |-> IF s = r.source THEN ConfOf[s] ELSE 0]

MergeSourceConfidences(m, n) == [s \in Source |-> Larger(m[s], n[s])]

NoisyOr(m) == Smaller(99 * (Scale \div 100), Scale - Doubt(m))

\* How sure the combination of two independent findings is, in the same units.
Corroborated(x, y) == Scale - ((Scale - x) * (Scale - y)) \div Scale

\* What is known of a path: its value, and the <<existing, incoming>> pairs recorded
\* for it under _conflicts.
Known(value, conflicts) == [value |-> value, conflicts |-> conflicts]

\* Fault: a conflict replaces the ones recorded before it.
MergePathKeepingLast(f, known, v) ==
    IF v = Null \/ v = known.value THEN known
    ELSE IF known.value = Null THEN Known(v, known.conflicts)
    ELSE Known(known.value, {<<known.value, v>>})

\* merge_attributes, for one path.  The conflicts found inside a dict are put over the
\* ones recorded for the same path, those of other attributes are added to them.
MergePath(f, known, v) ==
    IF v = Null \/ v = known.value THEN known
    ELSE IF known.value = Null THEN Known(v, known.conflicts)
    ELSE Known(known.value,
               {<<known.value, v>>} \cup (IF f \in Nested THEN {} ELSE known.conflicts))

\* Fault: the value reported last wins.
MergeAttributesLastWins(attributes, attrs) ==
    [f \in Field |->
        IF attrs[f] = Null THEN attributes[f]
        ELSE Known(attrs[f], MergePath(f, attributes[f], attrs[f]).conflicts)]

MergeAttributes(attributes, attrs) ==
    [f \in Field |-> MergePath(f, attributes[f], attrs[f])]

\* What an upsert stores for an id it does not have: the report, with the confidence
\* it came with.
FirstRecord(r) ==
    [sources |-> r.provs,
     tags |-> r.tags,
     first |-> r.seen,
     last |-> r.seen,
     attributes |-> [f \in Field |-> Known(r.attrs[f], {})],
     conf |-> SourceConfidences(r),
     confidence |-> ConfOf[r.source] * (Scale \div 10)]

\* Fault: every finding of a source counts as corroboration.
MergedPerFinding(rec, r) ==
    [sources |-> rec.sources \cup r.provs,
     tags |-> rec.tags \cup r.tags,
     first |-> Smaller(rec.first, r.seen),
     last |-> Larger(rec.last, r.seen),
     attributes |-> MergeAttributes(rec.attributes, r.attrs),
     conf |-> MergeSourceConfidences(rec.conf, SourceConfidences(r)),
     confidence |-> Corroborated(rec.confidence, ConfOf[r.source] * (Scale \div 10))]

\* Fault: the provenance of the report replaces what was there.
MergedForgetfully(rec, r) ==
    LET conf == MergeSourceConfidences(rec.conf, SourceConfidences(r))
    IN [sources |-> r.provs,
        tags |-> rec.tags \cup r.tags,
        first |-> Smaller(rec.first, r.seen),
        last |-> Larger(rec.last, r.seen),
        attributes |-> MergeAttributes(rec.attributes, r.attrs),
        conf |-> conf,
        confidence |-> NoisyOr(conf)]

\* Fault: the two dates are extended the wrong way.
MergedDatesSwapped(rec, r) ==
    LET conf == MergeSourceConfidences(rec.conf, SourceConfidences(r))
    IN [sources |-> rec.sources \cup r.provs,
        tags |-> rec.tags \cup r.tags,
        first |-> Larger(rec.first, r.seen),
        last |-> Smaller(rec.last, r.seen),
        attributes |-> MergeAttributes(rec.attributes, r.attrs),
        conf |-> conf,
        confidence |-> NoisyOr(conf)]

\* And for one it has.
Merged(rec, r) ==
    LET conf == MergeSourceConfidences(rec.conf, SourceConfidences(r))
    IN [sources |-> rec.sources \cup r.provs,
        tags |-> rec.tags \cup r.tags,
        first |-> Smaller(rec.first, r.seen),
        last |-> Larger(rec.last, r.seen),
        attributes |-> MergeAttributes(rec.attributes, r.attrs),
        conf |-> conf,
        confidence |-> NoisyOr(conf)]

\* Reference: what a set R of reports about one id says, whatever their order.
Union(R) ==
    [sources |-> UNION {r.provs : r \in R},
     tags |-> UNION {r.tags : r \in R},
     first |-> CHOOSE t \in {r.seen : r \in R} : \A r \in R : t <= r.seen,
     last |-> CHOOSE t \in {r.seen : r \in R} : \A r \in R : t >= r.seen,
     doubt |-> Doubt([s \in Source |-> IF \E r \in R : r.source = s THEN ConfOf[s] ELSE 0])]
=============================================================================
