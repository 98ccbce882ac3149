------------------------- MODULE ConfigCenterProofs -------------------------
(***************************************************************************)
(* Proofs about the configuration centre: the version history of a key is  *)
(* linear, the item is its last entry, the audit trail chains, and every   *)
(* push carries a value the history knows under the version number pushed, *)
(* for any keys, values, subscribers and number of waiting tasks.          *)
(*                                                                         *)
(* HistoryIsLinear is not inductive: that an update's number is new needs  *)
(* the item to have the highest number of the history, and AuditChains     *)
(* needs the trail's last entry to leave the item's value.  KeyOK says     *)
(* both, of one key, and the lemmas on Append show that an entry written   *)
(* by any of the store's functions preserves it.                           *)
(***************************************************************************)
EXTENDS ConfigCenter, FiniteSetTheorems, TLAPS

-----------------------------------------------------------------------------
(* Sequences. *)

\* What appending does to a sequence, element by element.
LEMMA AppendFacts ==
    ASSUME NEW S, NEW q \in Seq(S), NEW e \in S
    PROVE  /\ Append(q, e) \in Seq(S)
           /\ Len(Append(q, e)) = Len(q) + 1
           /\ Append(q, e)[Len(q) + 1] = e
           /\ \A i \in 1..Len(q) : Append(q, e)[i] = q[i]
           /\ Append(q, e) # <<>>
    OBVIOUS

\* Sequences are equal element by element.
LEMMA SameElements ==
    ASSUME NEW S, NEW p \in Seq(S), NEW q \in Seq(S), Len(p) = Len(q),
           \A i \in 1..Len(p) : p[i] = q[i]
    PROVE  p = q
    OBVIOUS

\* Appending to a sequence of one element.
LEMMA AppendToOne ==
    ASSUME NEW S, NEW a \in S, NEW b \in S
    PROVE  Append(<<a>>, b) = <<a, b>>
<1> DEFINE p == Append(<<a>>, b)
           q == <<a, b>>
<1>1. /\ p \in Seq(S) /\ q \in Seq(S) /\ Len(p) = 2 /\ Len(q) = 2
      /\ p[1] = q[1] /\ p[2] = q[2]
    OBVIOUS
<1> HIDE DEF p, q
<1>2. \A i \in 1..2 : i = 1 \/ i = 2
    OBVIOUS
<1>3. p = q
    BY <1>1, <1>2, SameElements
<1> QED BY <1>3 DEF p, q

\* An entry with the next number, or with the last number and its value, keeps
\* a history linear when no number is above the last.
LEMMA AppendLinear ==
    ASSUME NEW h \in Seq(ConfigVersion), NEW e \in ConfigVersion, Linear(h),
           \/ h = <<>> /\ e.version = 1
           \/ /\ h # <<>>
              /\ \A i \in 1..Len(h) : h[i].version <= h[Len(h)].version
              /\ \/ e.version = h[Len(h)].version + 1
                 \/ e.version = h[Len(h)].version /\ e.value = h[Len(h)].value
    PROVE  Linear(Append(h, e))
<1> DEFINE g == Append(h, e)
<1>1. /\ g \in Seq(ConfigVersion) /\ Len(g) = Len(h) + 1 /\ g[Len(h) + 1] = e
      /\ \A i \in 1..Len(h) : g[i] = h[i]
    BY AppendFacts
<1>2. Len(h) \in Nat /\ (h # <<>> => Len(h) >= 1)
    OBVIOUS
<1>3. \A i \in 1..Len(h) : h[i] \in ConfigVersion
    OBVIOUS
<1>4. /\ \A i \in 1..Len(h) : h[i].version \in Nat
      /\ e.version \in Nat
    BY <1>3 DEF ConfigVersion
<1> HIDE DEF g
<1>5. g # <<>> => g[1].version = 1
    <2>1. CASE h = <<>>
        BY <2>1, <1>1, <1>2
    <2>2. CASE h # <<>>
        BY <2>2, <1>1, <1>2 DEF Linear
    <2> QED BY <2>1, <2>2
<1>6. ASSUME NEW i \in 2..Len(g)
      PROVE  g[i].version - g[i - 1].version \in {0, 1}
    <2>1. CASE i <= Len(h)
        <3>1. g[i] = h[i] /\ g[i - 1] = h[i - 1] /\ i \in 2..Len(h)
            BY <2>1, <1>1, <1>2
        <3> QED BY <3>1 DEF Linear
    <2>2. CASE i = Len(h) + 1
        <3>1. h # <<>> /\ g[i] = e /\ g[i - 1] = h[Len(h)] /\ Len(h) \in 1..Len(h)
            BY <2>2, <1>1, <1>2
        <3> QED BY <3>1, <1>4
    <2> QED BY <2>1, <2>2, <1>1, <1>2
<1>7. ASSUME NEW i \in 1..Len(g), NEW j \in 1..Len(g), g[i].version = g[j].version
      PROVE  g[i].value = g[j].value
    <2>1. ASSUME NEW n \in 1..Len(h), e.version = h[n].version
          PROVE  e.value = h[n].value
        <3>1. h # <<>> /\ Len(h) \in 1..Len(h)
            BY <1>2
        <3>2. e.version = h[Len(h)].version /\ e.value = h[Len(h)].value
            BY <3>1, <2>1, <1>4
        <3> QED BY <3>1, <3>2, <2>1 DEF Linear
    <2>2. CASE i \in 1..Len(h) /\ j \in 1..Len(h)
        BY <2>2, <1>1, <1>7 DEF Linear
    <2>3. CASE i \in 1..Len(h) /\ j = Len(h) + 1
        BY <2>3, <2>1, <1>1, <1>7
    <2>4. CASE i = Len(h) + 1 /\ j \in 1..Len(h)
        BY <2>4, <2>1, <1>1, <1>7
    <2>5. CASE i = Len(h) + 1 /\ j = Len(h) + 1
        BY <2>5
    <2> QED BY <2>2, <2>3, <2>4, <2>5, <1>1, <1>2
<1>8. Linear(g)
    BY <1>5, <1>6, <1>7 DEF Linear
<1> QED BY <1>8 DEF g

\* An entry that names what its predecessor left keeps a trail chained.
LEMMA AppendChained ==
    ASSUME NEW c \in Seq(ConfigChange), NEW e \in ConfigChange, Chained(c),
           \/ c = <<>> /\ e.type = "created"
           \/ /\ c # <<>>
              /\ \/ /\ e.type \in {"updated", "rolled_back", "deleted"}
                    /\ e.old = Left(c[Len(c)])
                 \/ e.type = "published" /\ e.new = Left(c[Len(c)])
    PROVE  Chained(Append(c, e))
<1> DEFINE g == Append(c, e)
<1>1. /\ g \in Seq(ConfigChange) /\ Len(g) = Len(c) + 1 /\ g[Len(c) + 1] = e
      /\ \A i \in 1..Len(c) : g[i] = c[i]
    BY AppendFacts
<1>2. Len(c) \in Nat /\ (c # <<>> => Len(c) >= 1) /\ (c = <<>> => Len(c) = 0)
    OBVIOUS
<1> HIDE DEF g
<1> DEFINE Ok(s, i) ==
        \/ i = 1 /\ s[i].type = "created"
        \/ i > 1 /\ s[i].type \in {"updated", "rolled_back", "deleted"}
                 /\ s[i].old = Left(s[i - 1])
        \/ i > 1 /\ s[i].type = "published" /\ s[i].new = Left(s[i - 1])
<1>3. ASSUME NEW i \in 1..Len(g) PROVE Ok(g, i)
    <2>1. CASE i <= Len(c)
        <3>1. i \in 1..Len(c) /\ g[i] = c[i] /\ (i > 1 => g[i - 1] = c[i - 1])
            BY <2>1, <1>1, <1>2
        <3>2. Ok(c, i)
            BY <3>1 DEF Chained
        <3> QED BY <3>1, <3>2
    <2>2. CASE i = Len(c) + 1
        <3>1. g[i] = e /\ (i > 1 => g[i - 1] = c[Len(c)])
            BY <2>2, <1>1, <1>2
        <3>2. CASE c = <<>>
            BY <3>1, <3>2, <2>2, <1>2
        <3>3. CASE c # <<>>
            <4>1. i > 1
                BY <3>3, <2>2, <1>2
            <4> QED BY <3>1, <3>3, <4>1
        <3> QED BY <3>2, <3>3
    <2> QED BY <2>1, <2>2, <1>1, <1>2
<1>4. Chained(g)
    BY <1>3 DEF Chained
<1> QED BY <1>4 DEF g

\* Appending to the trail adds the new entry to those told, or none if it is a
\* deletion, and does not change which of the first i are.
LEMMA AppendTold ==
    ASSUME NEW c \in Seq(ConfigChange), NEW d \in ConfigChange
    PROVE  /\ \A i \in 1..Len(c) : Told(Append(c, d), i) = Told(c, i)
           /\ IsFiniteSet(Told(c, Len(c))) /\ Len(c) + 1 \notin Told(c, Len(c))
           /\ Told(Append(c, d), Len(c) + 1) =
                 IF d.type = "deleted" THEN Told(c, Len(c))
                                       ELSE Told(c, Len(c)) \cup {Len(c) + 1}
<1> DEFINE g == Append(c, d)
<1>1. /\ g[Len(c) + 1] = d /\ \A i \in 1..Len(c) : g[i] = c[i]
      /\ Len(c) \in Nat
    BY AppendFacts
<1> HIDE DEF g
<1>2. ASSUME NEW i \in 1..Len(c) PROVE Told(g, i) = Told(c, i)
    <2>1. \A j \in 1..i : j \in 1..Len(c)
        BY <1>1
    <2> QED BY <1>1, <2>1 DEF Told
<1>3. IsFiniteSet(Told(c, Len(c))) /\ Len(c) + 1 \notin Told(c, Len(c))
    <2>1. Told(c, Len(c)) \subseteq 1..Len(c)
        BY DEF Told
    <2>2. Len(c) + 1 \notin 1..Len(c)
        BY <1>1
    <2>3. IsFiniteSet(1..Len(c))
        BY <1>1, FS_Interval
    <2> QED BY <2>1, <2>2, <2>3, FS_Subset
<1>4. \A j : j \in 1..(Len(c) + 1) <=> j \in 1..Len(c) \/ j = Len(c) + 1
    BY <1>1
<1>5. Told(g, Len(c) + 1) = IF d.type = "deleted" THEN Told(c, Len(c))
                                       ELSE Told(c, Len(c)) \cup {Len(c) + 1}
    BY <1>1, <1>4 DEF Told
<1> QED BY <1>2, <1>3, <1>5 DEF g

\* An entry appended to both, saying the same, keeps them in step.
LEMMA AppendBothTells ==
    ASSUME NEW c \in Seq(ConfigChange), NEW h \in Seq(ConfigVersion), Tells(c, h),
           NEW d \in ConfigChange, NEW e \in ConfigVersion,
           d.type # "deleted", d.type = e.type, d.version = e.version, d.new = e.value
    PROVE  Tells(Append(c, d), Append(h, e))
<1> DEFINE g == Append(c, d)
           f == Append(h, e)
           T == Told(c, Len(c))
<1>1. /\ Len(g) = Len(c) + 1 /\ g[Len(c) + 1] = d
      /\ \A i \in 1..Len(c) : g[i] = c[i]
      /\ Len(f) = Len(h) + 1 /\ f[Len(h) + 1] = e
      /\ \A i \in 1..Len(h) : f[i] = h[i]
      /\ Len(h) \in Nat /\ Len(c) \in Nat
    BY AppendFacts
<1>2. /\ \A i \in 1..Len(c) : Told(g, i) = Told(c, i)
      /\ IsFiniteSet(T) /\ Len(c) + 1 \notin T
      /\ Told(g, Len(c) + 1) = T \cup {Len(c) + 1}
    BY AppendTold
<1> HIDE DEF g, f
<1>3. Cardinality(Told(g, Len(g))) = Len(h) + 1
    <2> DEFINE x == Len(c) + 1
    <2>1. Cardinality(T) = Len(h)
        BY DEF Tells
    <2>2. IsFiniteSet(T) /\ x \notin T /\ Told(g, x) = T \cup {x} /\ Len(g) = x
        BY <1>1, <1>2
    <2> HIDE DEF T, x
    <2> QED BY <2>1, <2>2, FS_AddElement
<1>4. ASSUME NEW i \in Told(g, Len(g))
      PROVE  LET n == Cardinality(Told(g, i)) IN
             /\ n \in 1..Len(f)
             /\ g[i].version = f[n].version /\ g[i].type = f[n].type
             /\ g[i].new = f[n].value
    <2>1. CASE i \in T
        <3>1. i \in 1..Len(c)
            BY <2>1 DEF Told
        <3> DEFINE n == Cardinality(Told(c, i))
        <3>2. /\ n \in 1..Len(h)
              /\ c[i].version = h[n].version /\ c[i].type = h[n].type
              /\ c[i].new = h[n].value
            BY <2>1 DEF Tells
        <3> QED BY <1>1, <1>2, <3>1, <3>2
    <2>2. CASE i = Len(c) + 1
        BY <1>1, <1>3, <2>2
    <2> QED BY <1>1, <1>2, <2>1, <2>2
<1>5. Tells(g, f)
    BY <1>1, <1>3, <1>4 DEF Tells
<1> QED BY <1>5 DEF g, f

\* A deletion has no counterpart in the history.
LEMMA AppendDeletionTells ==
    ASSUME NEW c \in Seq(ConfigChange), NEW h \in Seq(ConfigVersion), Tells(c, h),
           NEW d \in ConfigChange, d.type = "deleted"
    PROVE  Tells(Append(c, d), h)
<1> DEFINE g == Append(c, d)
<1>1. /\ Len(g) = Len(c) + 1 /\ \A i \in 1..Len(c) : g[i] = c[i]
    BY AppendFacts
<1>2. /\ \A i \in 1..Len(c) : Told(g, i) = Told(c, i)
      /\ Told(g, Len(c) + 1) = Told(c, Len(c))
    BY AppendTold
<1> HIDE DEF g
<1>3. \A i \in Told(c, Len(c)) : i \in 1..Len(c)
    BY DEF Told
<1>4. Tells(g, h)
    BY <1>1, <1>2, <1>3 DEF Tells
<1> QED BY <1>4 DEF g

\* A key without entries.
LEMMA NothingTold == Tells(<<>>, <<>>)
<1>1. Told(<<>>, Len(<<>>)) = {}
    BY DEF Told
<1> QED BY <1>1, FS_EmptySet DEF Tells

-----------------------------------------------------------------------------
(* One key. *)

\* Fields of an item are typed.
LEMMA ItemFields ==
    ASSUME NEW item \in Item
    PROVE  /\ item.version \in Nat \ {0}
           /\ item.value \in JSON
           /\ item.status \in {"draft", "published", "deprecated"}
    BY DEF Item

\* Snapshots and changes built from an item are typed.
LEMMA EntriesTyped ==
    ASSUME NEW item \in Item, NEW type \in ChangeType, NEW old \in JSON, NEW new \in JSON
    PROVE  /\ type # "deleted" => Snapshot(item, type) \in ConfigVersion
           /\ Change(item, type, old, new) \in ConfigChange
    BY ItemFields DEF Snapshot, Change, ConfigVersion, ConfigChange

\* What set_item, publish_item and rollback_to_version write for a key keeps
\* item, history and trail in agreement.
LEMMA RecordKeepsKey ==
    ASSUME NEW was \in Item \cup {NoItem}, NEW h \in Seq(ConfigVersion),
           NEW c \in Seq(ConfigChange), KeyOK(was, h, c),
           NEW item \in Item, NEW type \in ChangeType, NEW old \in JSON,
           \/ /\ was = NoItem
              /\ item.version = 1 /\ type = "created"
           \/ /\ was # NoItem
              /\ item.version = was.version + 1
              /\ type \in {"updated", "rolled_back"} /\ old = was.value
           \/ /\ was # NoItem
              /\ item.version = was.version /\ item.value = was.value
              /\ type = "published"
    PROVE  /\ Append(h, Snapshot(item, type)) \in Seq(ConfigVersion)
           /\ Append(c, Change(item, type, old, item.value)) \in Seq(ConfigChange)
           /\ KeyOK(item, Append(h, Snapshot(item, type)),
                    Append(c, Change(item, type, old, item.value)))
<1> DEFINE e == Snapshot(item, type)
           d == Change(item, type, old, item.value)
<1>1. item.value \in JSON /\ item.version \in Nat \ {0} /\ type # "deleted"
    BY ItemFields
<1>2. e \in ConfigVersion /\ d \in ConfigChange
    BY <1>1, EntriesTyped
<1>3. /\ e.version = item.version /\ e.value = item.value /\ e.status = item.status
      /\ d.type = type /\ d.old = old /\ d.new = item.value
    BY DEF Snapshot, Change
<1>4. was # NoItem => was \in Item /\ was.version \in Nat
    BY ItemFields
<1>5. item # NoItem
    BY ConfigAssumption
<1> HIDE DEF e, d
<1>6. Linear(Append(h, e))
    <2>1. CASE was = NoItem
        BY <2>1, <1>2, <1>3, AppendLinear DEF KeyOK
    <2>2. CASE was # NoItem
        <3>1. /\ h # <<>> /\ was.version = h[Len(h)].version
              /\ was.value = h[Len(h)].value
              /\ \A i \in 1..Len(h) : h[i].version <= h[Len(h)].version
            BY <2>2 DEF KeyOK
        <3> QED BY <3>1, <2>2, <1>2, <1>3, AppendLinear DEF KeyOK
    <2> QED BY <2>1, <2>2
<1>7. Chained(Append(c, d))
    <2>1. CASE was = NoItem
        BY <2>1, <1>2, <1>3, AppendChained DEF KeyOK
    <2>2. CASE was # NoItem
        <3>1. c # <<>> /\ Left(c[Len(c)]) = was.value
            BY <2>2 DEF KeyOK
        <3> QED BY <3>1, <2>2, <1>2, <1>3, AppendChained DEF KeyOK
    <2> QED BY <2>1, <2>2
<1>8. /\ Append(h, e) \in Seq(ConfigVersion) /\ Len(Append(h, e)) = Len(h) + 1
      /\ Append(h, e)[Len(h) + 1] = e /\ Append(h, e) # <<>>
      /\ \A i \in 1..Len(h) : Append(h, e)[i] = h[i]
    BY <1>2, AppendFacts
<1>9. /\ Append(c, d) \in Seq(ConfigChange) /\ Len(Append(c, d)) = Len(c) + 1
      /\ Append(c, d)[Len(c) + 1] = d /\ Append(c, d) # <<>>
    BY <1>2, AppendFacts
<1>10. ASSUME NEW i \in 1..Len(Append(h, e))
       PROVE  Append(h, e)[i].version <= item.version
    <2>1. Len(h) \in Nat
        OBVIOUS
    <2>2. CASE i = Len(h) + 1
        BY <2>2, <1>8, <1>3, <1>1
    <2>3. CASE i \in 1..Len(h)
        <3>1. was # NoItem /\ h[i].version <= was.version /\ h[i] \in ConfigVersion
            BY <2>3 DEF KeyOK
        <3>2. h[i].version \in Nat
            BY <3>1 DEF ConfigVersion
        <3>3. was.version <= item.version
            BY <3>1, <1>4, <1>1
        <3> QED BY <3>1, <3>2, <3>3, <1>4, <1>1, <1>8, <2>3
    <2> QED BY <2>1, <2>2, <2>3, <1>8
<1>11. Left(d) = item.value
    BY <1>1, <1>3 DEF Left
<1>12. Tells(Append(c, d), Append(h, e))
    <2>1. e.type = type
        BY DEF Snapshot, e
    <2>2. Tells(c, h)
        BY DEF KeyOK
    <2>3. /\ d.type # "deleted" /\ d.type = e.type
          /\ d.version = e.version /\ d.new = e.value
        BY <1>1, <1>3, <2>1 DEF Change, d
    <2> QED BY <1>2, <2>2, <2>3, AppendBothTells
<1>13. KeyOK(item, Append(h, e), Append(c, d))
    BY <1>12, <1>3, <1>5, <1>6, <1>7, <1>8, <1>9, <1>10, <1>11 DEF KeyOK
<1> QED BY <1>8, <1>9, <1>13 DEF e, d

\* deprecate_item, which writes the trail and not the history, does too.
LEMMA DeprecateKeepsKey ==
    ASSUME NEW was \in Item, NEW h \in Seq(ConfigVersion),
           NEW c \in Seq(ConfigChange), KeyOK(was, h, c),
           NEW item \in Item, item = [was EXCEPT !.status = "deprecated"]
    PROVE  /\ Append(c, Change(item, "deleted", item.value, NoValue)) \in Seq(ConfigChange)
           /\ KeyOK(item, h, Append(c, Change(item, "deleted", item.value, NoValue)))
<1> DEFINE d == Change(item, "deleted", item.value, NoValue)
<1>1. /\ item.version = was.version /\ item.value = was.value
      /\ item.status = "deprecated"
    BY DEF Item
<1>2. d \in ConfigChange
    BY EntriesTyped, ItemFields DEF ChangeType, JSON
<1>3. d.type = "deleted" /\ d.old = item.value
    BY DEF Change
<1>4. was # NoItem /\ item # NoItem
    BY ConfigAssumption
<1> HIDE DEF d
<1>5. c # <<>> /\ Left(c[Len(c)]) = was.value
    BY <1>4 DEF KeyOK
<1>6. Chained(Append(c, d))
    BY <1>1, <1>2, <1>3, <1>5, AppendChained DEF KeyOK
<1>7. /\ Append(c, d) \in Seq(ConfigChange) /\ Len(Append(c, d)) = Len(c) + 1
      /\ Append(c, d)[Len(c) + 1] = d /\ Append(c, d) # <<>>
    BY <1>2, AppendFacts
<1>8. Left(d) = item.value
    BY <1>3 DEF Left
<1>9. Tells(Append(c, d), h)
    BY <1>2, <1>3, AppendDeletionTells DEF KeyOK
<1>10. KeyOK(item, h, Append(c, d))
    BY <1>1, <1>4, <1>6, <1>7, <1>8, <1>9 DEF KeyOK
<1> QED BY <1>7, <1>10 DEF d

-----------------------------------------------------------------------------
(* Steps of the store. *)

KeysOK == \A k \in Keys : KeyOK(items[k], versions[k], changes[k])

StoreTyped ==
    /\ items \in [Keys -> Item \cup {NoItem}]
    /\ versions \in [Keys -> Seq(ConfigVersion)]
    /\ changes \in [Keys -> Seq(ConfigChange)]

\* Record, with the item and the entry its callers pass, keeps every key in
\* order, forgets nothing of the history and adds the item to it.
LEMMA RecordStep ==
    ASSUME StoreTyped, KeysOK, NEW k \in Keys,
           NEW item \in Item, NEW type \in ChangeType, NEW old \in JSON,
           Record(k, item, type, old),
           \/ /\ items[k] = NoItem
              /\ item.version = 1 /\ type = "created"
           \/ /\ items[k] # NoItem
              /\ item.version = items[k].version + 1
              /\ type \in {"updated", "rolled_back"} /\ old = items[k].value
           \/ /\ items[k] # NoItem
              /\ item.version = items[k].version /\ item.value = items[k].value
              /\ type = "published"
    PROVE  /\ StoreTyped' /\ KeysOK'
           /\ \A q \in Keys : \A x : InHistory(q, x) => InHistory(q, x)'
           /\ InHistory(k, item)'
           /\ items'[k] = item
           /\ \A q \in Keys : q # k => items'[q] = items[q]
<1>1. /\ items[k] \in Item \cup {NoItem}
      /\ versions[k] \in Seq(ConfigVersion)
      /\ changes[k] \in Seq(ConfigChange)
      /\ KeyOK(items[k], versions[k], changes[k])
    BY DEF StoreTyped, KeysOK
<1> DEFINE h == Append(versions[k], Snapshot(item, type))
           c == Append(changes[k], Change(item, type, old, item.value))
<1>2. h \in Seq(ConfigVersion) /\ c \in Seq(ConfigChange) /\ KeyOK(item, h, c)
    BY <1>1, RecordKeepsKey
<1>3. /\ items' = [items EXCEPT ![k] = item]
      /\ versions' = [versions EXCEPT ![k] = h]
      /\ changes' = [changes EXCEPT ![k] = c]
    BY DEF Record
<1>4. /\ Len(h) = Len(versions[k]) + 1
      /\ h[Len(versions[k]) + 1] = Snapshot(item, type)
      /\ \A i \in 1..Len(versions[k]) : h[i] = versions[k][i]
    <2>1. type # "deleted" /\ Snapshot(item, type) \in ConfigVersion
        BY EntriesTyped, ItemFields DEF ChangeType
    <2> QED BY <1>1, <2>1, AppendFacts
<1>5. Len(versions[k]) \in Nat
    BY <1>1
<1> HIDE DEF h, c
<1>6. StoreTyped'
    BY <1>2, <1>3 DEF StoreTyped
<1>7. /\ items'[k] = item /\ versions'[k] = h /\ changes'[k] = c
      /\ \A q \in Keys : q # k => /\ items'[q] = items[q]
                                  /\ versions'[q] = versions[q]
                                  /\ changes'[q] = changes[q]
    BY <1>3 DEF StoreTyped
<1>8. KeysOK'
    <2> SUFFICES ASSUME NEW q \in Keys
                 PROVE  KeyOK(items'[q], versions'[q], changes'[q])
        BY DEF KeysOK, KeyOK
    <2>1. CASE q = k
        BY <2>1, <1>2, <1>7
    <2>2. CASE q # k
        <3>1. KeyOK(items[q], versions[q], changes[q])
            BY DEF KeysOK
        <3> QED BY <2>2, <3>1, <1>7
    <2> QED BY <2>1, <2>2
<1>9. ASSUME NEW q \in Keys, NEW x, InHistory(q, x)
      PROVE  InHistory(q, x)'
    <2>1. PICK i \in 1..Len(versions[q]) : /\ versions[q][i].version = x.version
                                           /\ versions[q][i].value = x.value
        BY <1>9 DEF InHistory
    <2>2. CASE q = k
        <3>1. i \in 1..Len(h) /\ h[i] = versions[k][i]
            BY <2>1, <2>2, <1>4, <1>5
        <3> QED BY <3>1, <2>1, <2>2, <1>7 DEF InHistory
    <2>3. CASE q # k
        BY <2>1, <2>3, <1>7 DEF InHistory
    <2> QED BY <2>2, <2>3
<1>10. InHistory(k, item)'
    <2>1. /\ Snapshot(item, type).version = item.version
          /\ Snapshot(item, type).value = item.value
        BY DEF Snapshot
    <2>2. Len(versions[k]) + 1 \in 1..Len(h)
        BY <1>4, <1>5
    <2> QED BY <2>1, <2>2, <1>4, <1>7 DEF InHistory
<1> QED BY <1>6, <1>7, <1>8, <1>9, <1>10

\* The item a key has is the last entry of its history.
LEMMA ItemInHistory ==
    ASSUME StoreTyped, KeysOK, NEW k \in Keys, items[k] # NoItem
    PROVE  InHistory(k, items[k])
<1>1. versions[k] \in Seq(ConfigVersion) /\ KeyOK(items[k], versions[k], changes[k])
    BY DEF StoreTyped, KeysOK
<1>2. /\ versions[k] # <<>>
      /\ versions[k][Len(versions[k])].version = items[k].version
      /\ versions[k][Len(versions[k])].value = items[k].value
    BY <1>1 DEF KeyOK
<1>3. Len(versions[k]) \in 1..Len(versions[k])
    BY <1>1, <1>2
<1> QED BY <1>2, <1>3 DEF InHistory

\* set_item keeps every key in order and forgets nothing of the history.
LEMMA SetItemStep ==
    ASSUME StoreTyped, KeysOK, NEW k \in Keys, NEW v \in JSON, SetItem(k, v)
    PROVE  /\ StoreTyped' /\ KeysOK'
           /\ \A q \in Keys : \A x : InHistory(q, x) => InHistory(q, x)'
           /\ \A q \in Keys : q # k => items'[q] = items[q]
<1>1. CASE items[k] = NoItem
    <2> DEFINE item == [value |-> v, status |-> "draft", version |-> 1]
    <2>1. item \in Item /\ item.version = 1
        BY DEF Item
    <2>2. Record(k, item, "created", NoValue)
        BY <1>1 DEF SetItem
    <2>3. "created" \in ChangeType /\ NoValue \in JSON
        BY DEF ChangeType, JSON
    <2> HIDE DEF item
    <2> QED BY <1>1, <2>1, <2>2, <2>3, RecordStep
<1>2. CASE items[k] # NoItem
    <2> DEFINE item == [value |-> v, status |-> items[k].status,
                    version |-> items[k].version + 1]
    <2>1. items[k] \in Item
        BY <1>2 DEF StoreTyped
    <2>2. item \in Item /\ item.version = items[k].version + 1
        BY <2>1 DEF Item
    <2>3. Record(k, item, "updated", items[k].value)
        BY <1>2 DEF SetItem
    <2>4. "updated" \in ChangeType /\ items[k].value \in JSON
        BY <2>1, ItemFields DEF ChangeType
    <2> HIDE DEF item
    <2> QED BY <1>2, <2>2, <2>3, <2>4, RecordStep
<1> QED BY <1>1, <1>2

-----------------------------------------------------------------------------
(* The inductive invariant. *)

Listed == \A k \in Keys : items[k] # NoItem => k[1] \in namespaces

RestTyped ==
    /\ namespaces \in SUBSET Namespaces
    /\ subs \in [Services -> {NotSubscribed} \cup SUBSET Namespaces]
    /\ notified \in [Services -> {"never", "failed", "ok"}]
    /\ tasks \in [Tasks -> Job \cup {NoJob}]
    /\ pushing \in Job \cup {NoJob}
    /\ todo \in SUBSET Services
    /\ pulling \in Services \cup {NoService}
    /\ views \in [Services -> [Keys -> Item \cup {NoItem}]]

Parts == /\ StoreTyped /\ RestTyped /\ KeysOK /\ Listed
         /\ PushesHaveHistory /\ PushIsCoherent

\* The invariant, in the parts that the steps below treat.
LEMMA InvParts == ConfigInv <=> Parts
    BY DEF ConfigInv, Parts, TypeOK, StoreTyped, RestTyped, KeysOK, Listed

\* A step that keeps the history of every item and moves no push keeps what
\* pushes and subscribers hold in the history.
LEMMA HistoryKept ==
    ASSUME RestTyped, PushesHaveHistory,
           \A q \in Keys : \A x : InHistory(q, x) => InHistory(q, x)',
           UNCHANGED <<tasks, pushing, views>>
    PROVE  PushesHaveHistory'
<1>1. \A t \in Tasks : tasks[t] # NoJob => tasks[t].key \in Keys
    BY DEF RestTyped, Job
<1>2. pushing # NoJob => pushing.key \in Keys
    BY DEF RestTyped, Job
<1>3. ASSUME NEW t \in Tasks, tasks'[t] # NoJob
      PROVE  InHistory(tasks[t].key, tasks[t].item)'
    BY <1>1, <1>3 DEF PushesHaveHistory
<1>4. ASSUME pushing' # NoJob PROVE InHistory(pushing.key, pushing.item)'
    BY <1>2, <1>4 DEF PushesHaveHistory
<1>5. ASSUME NEW s \in Services, NEW k \in Keys, views'[s][k] # NoItem
      PROVE  InHistory(k, views[s][k])'
    BY <1>5 DEF PushesHaveHistory
<1> QED BY <1>3, <1>4, <1>5 DEF PushesHaveHistory

\* A task added for a key carries an item of its history.
LEMMA TaskAdded ==
    ASSUME RestTyped, PushesHaveHistory, NEW k \in Keys, NEW item \in Item,
           \A q \in Keys : \A x : InHistory(q, x) => InHistory(q, x)',
           InHistory(k, item)', AddTask(k, item), UNCHANGED <<pushing, views>>
    PROVE  PushesHaveHistory' /\ tasks' \in [Tasks -> Job \cup {NoJob}]
<1> DEFINE job == [key |-> k, item |-> item]
<1>1. job \in Job /\ job.key = k /\ job.item = item
    BY DEF Job
<1>2. PICK n \in Tasks : tasks' = [tasks EXCEPT ![n] = job]
    BY DEF AddTask
<1> HIDE DEF job
<1>3. tasks' \in [Tasks -> Job \cup {NoJob}]
    BY <1>1, <1>2 DEF RestTyped
<1>4. ASSUME NEW t \in Tasks, tasks'[t] # NoJob
      PROVE  InHistory(tasks[t].key, tasks[t].item)'
    <2>1. CASE t = n
        BY <2>1, <1>1, <1>2 DEF RestTyped
    <2>2. CASE t # n
        <3>1. tasks'[t] = tasks[t]
            BY <2>2, <1>2 DEF RestTyped
        <3>2. tasks[t].key \in Keys
            BY <3>1, <1>4 DEF RestTyped, Job
        <3> QED BY <3>1, <3>2, <1>4 DEF PushesHaveHistory
    <2> QED BY <2>1, <2>2
<1>5. ASSUME pushing' # NoJob PROVE InHistory(pushing.key, pushing.item)'
    <2>1. pushing # NoJob /\ pushing.key \in Keys
        BY <1>5 DEF RestTyped, Job
    <2> QED BY <2>1 DEF PushesHaveHistory
<1>6. ASSUME NEW s \in Services, NEW q \in Keys, views'[s][q] # NoItem
      PROVE  InHistory(q, views[s][q])'
    BY <1>6 DEF PushesHaveHistory
<1> QED BY <1>3, <1>4, <1>5, <1>6 DEF PushesHaveHistory

\* A service that is told of an item of the history.
LEMMA ViewsTold ==
    ASSUME RestTyped, PushesHaveHistory, NEW s \in Services, NEW k \in Keys,
           NEW item \in Item, InHistory(k, item),
           \A q \in Keys : \A x : InHistory(q, x) => InHistory(q, x)',
           views' = [views EXCEPT ![s][k] = item], UNCHANGED <<tasks, pushing>>
    PROVE  PushesHaveHistory'
<1>1. ASSUME NEW t \in Tasks, tasks'[t] # NoJob
      PROVE  InHistory(tasks[t].key, tasks[t].item)'
    <2>1. tasks[t] # NoJob /\ tasks[t].key \in Keys
        BY <1>1 DEF RestTyped, Job
    <2> QED BY <2>1 DEF PushesHaveHistory
<1>2. ASSUME pushing' # NoJob PROVE InHistory(pushing.key, pushing.item)'
    <2>1. pushing # NoJob /\ pushing.key \in Keys
        BY <1>2 DEF RestTyped, Job
    <2> QED BY <2>1 DEF PushesHaveHistory
<1>3. ASSUME NEW r \in Services, NEW q \in Keys, views'[r][q] # NoItem
      PROVE  InHistory(q, views[r][q])'
    <2>1. CASE r = s /\ q = k
        <3>1. views'[r][q] = item
            BY <2>1 DEF RestTyped
        <3> QED BY <2>1, <3>1
    <2>2. CASE ~(r = s /\ q = k)
        <3>1. views'[r][q] = views[r][q]
            BY <2>2 DEF RestTyped
        <3> QED BY <1>3, <3>1 DEF PushesHaveHistory
    <2> QED BY <2>1, <2>2
<1> QED BY <1>1, <1>2, <1>3 DEF PushesHaveHistory

\* A push that starts, from a free loop, with an item of the history.
LEMMA PushStarted ==
    ASSUME RestTyped, RestTyped', PushesHaveHistory, PushIsCoherent, Free,
           NEW k \in Keys, NEW item \in Item,
           \A q \in Keys : \A x : InHistory(q, x) => InHistory(q, x)',
           InHistory(k, item)', StartPush(k, item), UNCHANGED <<subs, views>>,
           \A t \in Tasks : tasks'[t] \in {tasks[t], NoJob}
    PROVE  PushesHaveHistory' /\ PushIsCoherent'
<1> DEFINE job == [key |-> k, item |-> item]
<1>1. job.key = k /\ job.item = item /\ job \in Job /\ job # NoJob
    BY ConfigAssumption DEF Job
<1>2. pushing' = job /\ todo' = Relevant(k) /\ pulling' = pulling
    BY DEF StartPush
<1> HIDE DEF job
<1>3. Relevant(k)' = Relevant(k)
    BY DEF Relevant
<1>4. pulling = NoService
    BY DEF PushIsCoherent, Free
<1>5. PushIsCoherent'
    BY <1>1, <1>2, <1>3, <1>4 DEF PushIsCoherent, Relevant
<1>6. ASSUME NEW t \in Tasks, tasks'[t] # NoJob
      PROVE  InHistory(tasks[t].key, tasks[t].item)'
    <2>1. tasks'[t] = tasks[t] /\ tasks[t].key \in Keys
        BY <1>6 DEF RestTyped, Job
    <2> QED BY <2>1, <1>6 DEF PushesHaveHistory
<1>7. InHistory(pushing.key, pushing.item)'
    BY <1>1, <1>2
<1>8. ASSUME NEW s \in Services, NEW q \in Keys, views'[s][q] # NoItem
      PROVE  InHistory(q, views[s][q])'
    BY <1>8 DEF PushesHaveHistory
<1> QED BY <1>5, <1>6, <1>7, <1>8 DEF PushesHaveHistory

-----------------------------------------------------------------------------
\* Every step preserves the invariant: the store's functions by the lemmas
\* above, the steps of a push because they move what is in the history already.
LEMMA ConfigStep ==
    ASSUME Parts, [Next]_vars
    PROVE  Parts'
<1> USE DEF store, push
<1>1. /\ StoreTyped /\ RestTyped /\ KeysOK /\ Listed
      /\ PushesHaveHistory /\ PushIsCoherent
    BY DEF Parts
<1>2. ASSUME UNCHANGED <<items, versions, changes>>
      PROVE  /\ StoreTyped' /\ KeysOK'
             /\ \A q \in Keys : \A x : InHistory(q, x) => InHistory(q, x)'
    BY <1>1, <1>2 DEF StoreTyped, KeysOK, KeyOK, InHistory
<1>3. ASSUME NEW k \in Keys PROVE k[1] \in Namespaces
    BY DEF Keys
<1>4. ASSUME NEW k \in Keys, NEW v \in JSON, CreateConfig(k, v)
      PROVE  Parts'
    <2>1. SetItem(k, v) /\ namespaces' = namespaces \cup {k[1]}
          /\ UNCHANGED <<subs, notified, tasks, push, views>>
        BY <1>4 DEF CreateConfig
    <2>2. /\ StoreTyped' /\ KeysOK'
          /\ \A q \in Keys : \A x : InHistory(q, x) => InHistory(q, x)'
          /\ \A q \in Keys : q # k => items'[q] = items[q]
        BY <1>1, <2>1, SetItemStep
    <2>3. RestTyped' /\ Listed' /\ PushIsCoherent'
        BY <1>1, <1>3, <2>1, <2>2 DEF RestTyped, Listed, PushIsCoherent, Relevant
    <2>4. PushesHaveHistory'
        BY <1>1, <2>1, <2>2, HistoryKept
    <2> QED BY <2>2, <2>3, <2>4 DEF Parts
<1>5. ASSUME NEW k \in Keys, NEW v \in JSON, UpdateConfig(k, v)
      PROVE  Parts'
    <2>1. SetItem(k, v) /\ items[k] # NoItem
          /\ UNCHANGED <<namespaces, subs, notified, tasks, push, views>>
        BY <1>5 DEF UpdateConfig
    <2>2. /\ StoreTyped' /\ KeysOK'
          /\ \A q \in Keys : \A x : InHistory(q, x) => InHistory(q, x)'
          /\ \A q \in Keys : q # k => items'[q] = items[q]
        BY <1>1, <2>1, SetItemStep
    <2>3. RestTyped' /\ Listed' /\ PushIsCoherent'
        BY <1>1, <2>1, <2>2 DEF RestTyped, Listed, PushIsCoherent, Relevant
    <2>4. PushesHaveHistory'
        BY <1>1, <2>1, <2>2, HistoryKept
    <2> QED BY <2>2, <2>3, <2>4 DEF Parts
<1>6. ASSUME NEW k \in Keys, PublishConfig(k)
      PROVE  Parts'
    <2>0. PICK item : item = [items[k] EXCEPT !.status = "published"]
        OBVIOUS
    <2>1. /\ items[k] # NoItem /\ Record(k, item, "published", NoValue)
          /\ AddTask(k, item) /\ UNCHANGED <<namespaces, subs, notified, push, views>>
        BY <1>6, <2>0 DEF PublishConfig
    <2>2. items[k] \in Item
        BY <1>1, <2>1 DEF StoreTyped
    <2>3. /\ item \in Item /\ item.version = items[k].version
          /\ item.value = items[k].value
        BY <2>0, <2>2 DEF Item
    <2>4. "published" \in ChangeType /\ NoValue \in JSON
        BY DEF ChangeType, JSON
    <2>5. /\ StoreTyped' /\ KeysOK'
          /\ \A q \in Keys : \A x : InHistory(q, x) => InHistory(q, x)'
          /\ InHistory(k, item)'
          /\ \A q \in Keys : q # k => items'[q] = items[q]
        BY <1>1, <2>1, <2>3, <2>4, RecordStep
    <2>6. PushesHaveHistory' /\ tasks' \in [Tasks -> Job \cup {NoJob}]
        BY <1>1, <2>1, <2>3, <2>5, TaskAdded
    <2>7. RestTyped' /\ Listed' /\ PushIsCoherent'
        BY <1>1, <2>1, <2>5, <2>6 DEF RestTyped, Listed, PushIsCoherent, Relevant
    <2> QED BY <2>5, <2>6, <2>7 DEF Parts
<1>7. ASSUME NEW k \in Keys, DeleteConfig(k)
      PROVE  Parts'
    <2>0. PICK item : item = [items[k] EXCEPT !.status = "deprecated"]
        OBVIOUS
    <2> DEFINE c == Append(changes[k], Change(item, "deleted", item.value, NoValue))
    <2>1. /\ items[k] # NoItem
          /\ items' = [items EXCEPT ![k] = item]
          /\ changes' = [changes EXCEPT ![k] = c]
          /\ AddTask(k, item)
          /\ UNCHANGED <<namespaces, versions, subs, notified, push, views>>
        BY <1>7, <2>0 DEF DeleteConfig
    <2>2. /\ items[k] \in Item /\ versions[k] \in Seq(ConfigVersion)
          /\ changes[k] \in Seq(ConfigChange)
          /\ KeyOK(items[k], versions[k], changes[k])
        BY <1>1, <2>1 DEF StoreTyped, KeysOK
    <2>3. /\ item \in Item /\ item.version = items[k].version
          /\ item.value = items[k].value
        BY <2>0, <2>2 DEF Item
    <2>4. c \in Seq(ConfigChange) /\ KeyOK(item, versions[k], c)
        BY <2>0, <2>2, <2>3, DeprecateKeepsKey
    <2> HIDE DEF c
    <2>5. StoreTyped'
        BY <1>1, <2>1, <2>3, <2>4 DEF StoreTyped
    <2>6. /\ items'[k] = item /\ changes'[k] = c
          /\ \A q \in Keys : q # k => items'[q] = items[q] /\ changes'[q] = changes[q]
        BY <1>1, <2>1 DEF StoreTyped
    <2>7. KeysOK'
        <3> SUFFICES ASSUME NEW q \in Keys
                     PROVE  KeyOK(items'[q], versions'[q], changes'[q])
            BY DEF KeysOK, KeyOK
        <3>1. KeyOK(items[q], versions[q], changes[q])
            BY <1>1 DEF KeysOK
        <3> QED BY <2>1, <2>4, <2>6, <3>1
    <2>8. \A q \in Keys : \A x : InHistory(q, x) => InHistory(q, x)'
        BY <2>1 DEF InHistory
    <2>9. InHistory(k, item)'
        <3>1. InHistory(k, items[k])
            BY <1>1, <2>1, ItemInHistory
        <3> QED BY <2>1, <2>3, <3>1 DEF InHistory
    <2>10. PushesHaveHistory' /\ tasks' \in [Tasks -> Job \cup {NoJob}]
        BY <1>1, <2>1, <2>3, <2>8, <2>9, TaskAdded
    <2>11. RestTyped' /\ Listed' /\ PushIsCoherent'
        BY <1>1, <2>1, <2>6, <2>10 DEF RestTyped, Listed, PushIsCoherent, Relevant
    <2> QED BY <2>5, <2>7, <2>10, <2>11 DEF Parts
<1>8. ASSUME NEW k \in Keys, NEW i \in Nat, RollbackConfig(k, i)
      PROVE  Parts'
    <2>0. PICK item : item = [value |-> versions[k][i].value, status |-> "published",
                              version |-> items[k].version + 1]
        OBVIOUS
    <2>1. /\ Free /\ i \in 1..Len(versions[k])
          /\ Record(k, item, "rolled_back", items[k].value) /\ StartPush(k, item)
          /\ UNCHANGED <<namespaces, subs, notified, tasks, views>>
        BY <1>8, <2>0 DEF RollbackConfig
    <2>2. /\ items[k] \in Item \cup {NoItem} /\ versions[k] \in Seq(ConfigVersion)
          /\ KeyOK(items[k], versions[k], changes[k])
        BY <1>1 DEF StoreTyped, KeysOK
    <2>3. items[k] # NoItem /\ items[k] \in Item
        BY <2>1, <2>2 DEF KeyOK
    <2>4. versions[k][i] \in ConfigVersion
        BY <2>1, <2>2
    <2>5. item \in Item /\ item.version = items[k].version + 1
        BY <2>0, <2>3, <2>4 DEF Item, ConfigVersion
    <2>6. "rolled_back" \in ChangeType /\ items[k].value \in JSON
        BY <2>3, ItemFields DEF ChangeType
    <2>7. /\ StoreTyped' /\ KeysOK'
          /\ \A q \in Keys : \A x : InHistory(q, x) => InHistory(q, x)'
          /\ InHistory(k, item)'
          /\ \A q \in Keys : q # k => items'[q] = items[q]
        BY <1>1, <2>1, <2>3, <2>5, <2>6, RecordStep
    <2>8. RestTyped'
        BY <1>1, <2>1, <2>5 DEF RestTyped, StartPush, Relevant, Job
    <2>9. PushesHaveHistory' /\ PushIsCoherent'
        BY <1>1, <2>1, <2>5, <2>7, <2>8, PushStarted
    <2>10. Listed'
        BY <1>1, <2>1, <2>3, <2>7 DEF Listed
    <2> QED BY <2>7, <2>8, <2>9, <2>10 DEF Parts
<1>9. ASSUME NEW n \in Namespaces, CreateNamespace(n) PROVE Parts'
    <2>1. /\ namespaces' = namespaces \cup {n}
          /\ UNCHANGED <<items, versions, changes, subs, notified, tasks, push, views>>
        BY <1>9 DEF CreateNamespace
    <2>2. RestTyped' /\ Listed' /\ PushIsCoherent'
        BY <1>1, <2>1 DEF RestTyped, Listed, PushIsCoherent, Relevant
    <2> QED BY <1>1, <1>2, <2>1, <2>2, HistoryKept DEF Parts
<1>10. ASSUME NEW s \in Services, NEW ns \in SUBSET Namespaces,
              Register(s, ns) \/ Unregister(s)
       PROVE  Parts'
    <2>1. /\ pushing = NoJob
          /\ \E x \in {NotSubscribed} \cup SUBSET Namespaces : subs' = [subs EXCEPT ![s] = x]
          /\ notified' = [notified EXCEPT ![s] = "never"]
          /\ UNCHANGED <<store, tasks, push, views>>
        <3>1. CASE Register(s, ns)
            BY <3>1 DEF Register, Free
        <3>2. CASE Unregister(s)
            <4>1. /\ pushing = NoJob
                  /\ subs' = [subs EXCEPT ![s] = NotSubscribed]
                  /\ notified' = [notified EXCEPT ![s] = "never"]
                  /\ UNCHANGED <<store, tasks, push, views>>
                BY <3>2 DEF Unregister, Free
            <4>2. NotSubscribed \in {NotSubscribed} \cup SUBSET Namespaces
                OBVIOUS
            <4> QED BY <4>1, <4>2, Zenon
        <3> QED BY <1>10, <3>1, <3>2
    <2>2. RestTyped'
        BY <1>1, <2>1 DEF RestTyped
    <2>3. Listed' /\ PushIsCoherent'
        BY <1>1, <2>1 DEF Listed, PushIsCoherent
    <2> QED BY <1>1, <1>2, <2>1, <2>2, <2>3, HistoryKept DEF Parts
<1>11. ASSUME NEW s \in Services, NEW k \in Keys, PullConfig(s, k) PROVE Parts'
    <2>1. /\ items[k] # NoItem
          /\ views' = [views EXCEPT ![s][k] = items[k]]
          /\ UNCHANGED <<store, subs, notified, tasks, push>>
        BY <1>11 DEF PullConfig
    <2>2. items[k] \in Item
        BY <1>1, <2>1 DEF StoreTyped
    <2>3. RestTyped' /\ Listed' /\ PushIsCoherent'
        BY <1>1, <2>1, <2>2 DEF RestTyped, Listed, PushIsCoherent, Relevant
    <2>4. InHistory(k, items[k])
        BY <1>1, <2>1, ItemInHistory
    <2>5. PushesHaveHistory'
        BY <1>1, <1>2, <2>1, <2>2, <2>4, ViewsTold
    <2> QED BY <1>1, <1>2, <2>1, <2>3, <2>5 DEF Parts
<1>12. ASSUME NEW t \in Tasks, RunTask(t) PROVE Parts'
    <2>1. /\ Free /\ tasks[t] # NoJob
          /\ StartPush(tasks[t].key, tasks[t].item)
          /\ tasks' = [tasks EXCEPT ![t] = NoJob]
          /\ UNCHANGED <<store, subs, notified, views>>
        BY <1>12 DEF RunTask
    <2>2. tasks[t].key \in Keys /\ tasks[t].item \in Item
        BY <1>1, <2>1 DEF RestTyped, Job
    <2>3. RestTyped'
        BY <1>1, <2>1, <2>2 DEF RestTyped, StartPush, Relevant, Job
    <2>4. Listed'
        BY <1>1, <2>1 DEF Listed
    <2>5. InHistory(tasks[t].key, tasks[t].item)
        BY <1>1, <2>1 DEF PushesHaveHistory
    <2>6. \A u \in Tasks : tasks'[u] \in {tasks[u], NoJob}
        BY <1>1, <2>1 DEF RestTyped
    <2>7. \A k \in Keys : \A x : InHistory(k, x) => InHistory(k, x)'
        BY <2>1 DEF InHistory
    <2>8. PushesHaveHistory' /\ PushIsCoherent'
        <3>0. PICK k, x : k = tasks[t].key /\ x = tasks[t].item
            OBVIOUS
        <3>1. k \in Keys /\ x \in Item /\ StartPush(k, x) /\ InHistory(k, x)
            BY <2>1, <2>2, <2>5, <3>0
        <3> QED BY <1>1, <1>2, <2>1, <2>3, <2>6, <2>7, <3>1, PushStarted
    <2> QED BY <1>1, <1>2, <2>1, <2>3, <2>4, <2>8 DEF Parts
<1>13. ASSUME NEW s \in Services,
              CallSucceeds(s) \/ CallFails(s) \/ CallTimesOut(s)
       PROVE  Parts'
    <2>1. /\ todo' = todo \ {s} /\ pulling' = NoService
          /\ \E o \in {"ok", "failed"} : notified' = [notified EXCEPT ![s] = o]
          /\ UNCHANGED <<store, subs, tasks, pushing>>
          /\ s \in todo
          /\ Accept(s) \/ UNCHANGED views
        <3>1. CASE CallSucceeds(s)
            BY <3>1 DEF CallSucceeds, Called
        <3>2. CASE CallFails(s)
            BY <3>2 DEF CallFails, Called
        <3>3. CASE CallTimesOut(s)
            <4>1. s \in todo
                BY <1>1, <3>3, ConfigAssumption DEF CallTimesOut, PushIsCoherent
            <4> QED BY <3>3, <4>1 DEF CallTimesOut, Called
        <3> QED BY <1>13, <3>1, <3>2, <3>3
    <2>2. /\ pushing # NoJob
          /\ pushing.key \in Keys /\ pushing.item \in Item
          /\ InHistory(pushing.key, pushing.item)
        BY <1>1, <2>1 DEF PushIsCoherent, RestTyped, PushesHaveHistory, Job
    <2>3. views' \in [Services -> [Keys -> Item \cup {NoItem}]]
        <3>1. CASE UNCHANGED views
            BY <1>1, <3>1 DEF RestTyped
        <3>2. CASE Accept(s)
            <4>1. views' = [views EXCEPT ![s] = [views[s] EXCEPT ![pushing.key] = pushing.item]]
                BY <3>2 DEF Accept
            <4>2. views[s] \in [Keys -> Item \cup {NoItem}]
                BY <1>1 DEF RestTyped
            <4>3. [views[s] EXCEPT ![pushing.key] = pushing.item] \in [Keys -> Item \cup {NoItem}]
                BY <2>2, <4>2
            <4> QED BY <1>1, <4>1, <4>3 DEF RestTyped
        <3> QED BY <2>1, <3>1, <3>2
    <2>4. RestTyped'
        BY <1>1, <2>1, <2>3 DEF RestTyped
    <2>5. Listed' /\ PushIsCoherent'
        BY <1>1, <2>1 DEF Listed, PushIsCoherent, Relevant
    <2>6. PushesHaveHistory'
        <3>1. CASE Accept(s)
            <4>0. PICK k, x : k = pushing.key /\ x = pushing.item
                OBVIOUS
            <4>1. k \in Keys /\ x \in Item /\ InHistory(k, x)
                  /\ views' = [views EXCEPT ![s][k] = x]
                BY <2>2, <3>1, <4>0 DEF Accept
            <4> QED BY <1>1, <1>2, <2>1, <4>1, ViewsTold
        <3>2. CASE UNCHANGED views
            BY <1>1, <1>2, <2>1, <3>2, HistoryKept
        <3> QED BY <2>1, <3>1, <3>2
    <2> QED BY <1>1, <1>2, <2>1, <2>4, <2>5, <2>6 DEF Parts
<1>14. ASSUME NEW s \in Services, CallbackPulls(s) PROVE Parts'
    <2>1. /\ s \in todo /\ pulling' = s
          /\ UNCHANGED <<store, subs, notified, tasks, pushing, todo, views>>
        BY <1>14 DEF CallbackPulls
    <2>2. RestTyped' /\ Listed' /\ PushIsCoherent'
        BY <1>1, <2>1 DEF RestTyped, Listed, PushIsCoherent, Relevant
    <2> QED BY <1>1, <1>2, <2>1, <2>2, HistoryKept DEF Parts
<1>15. ASSUME EndPush PROVE Parts'
    <2>1. /\ todo = {} /\ pushing' = NoJob
          /\ UNCHANGED <<store, subs, notified, tasks, todo, pulling, views>>
        BY <1>15 DEF EndPush
    <2>2. RestTyped' /\ Listed' /\ PushIsCoherent'
        BY <1>1, <2>1 DEF RestTyped, Listed, PushIsCoherent
    <2>3. PushesHaveHistory'
        BY <1>1, <1>2, <2>1 DEF PushesHaveHistory, InHistory
    <2> QED BY <1>1, <1>2, <2>1, <2>2, <2>3 DEF Parts
<1>16. ASSUME UNCHANGED vars PROVE Parts'
    <2>1. RestTyped' /\ Listed' /\ PushIsCoherent'
        BY <1>1, <1>16 DEF vars, RestTyped, Listed, PushIsCoherent, Relevant
    <2>2. UNCHANGED <<items, versions, changes, tasks, pushing, views>>
        BY <1>16 DEF vars
    <2> QED BY <1>1, <1>2, <2>1, <2>2, HistoryKept DEF Parts
<1>17. \A k \in Keys : \A i \in 1..MaxChanges[k] : i \in Nat
    BY ConfigAssumption
<1> QED BY <1>4, <1>5, <1>6, <1>7, <1>8, <1>9, <1>10, <1>11, <1>12, <1>13, <1>14,
           <1>15, <1>16, <1>17 DEF Next, PushStep

\* The initial state, with the seeded items, satisfies the invariant.
LEMMA ConfigInit == Init => Parts
<1> SUFFICES ASSUME Init PROVE Parts
    OBVIOUS
<1>1. ASSUME NEW k \in DOMAIN Seed
      PROVE  /\ SeedItem(k) \in Item /\ SeedDraft(k) \in Item /\ k \in Keys
             /\ k[1] \in Namespaces /\ Seed[k] \in JSON /\ NoValue \in JSON
    BY ConfigAssumption DEF SeedItem, SeedDraft, Item, JSON, Keys
<1>2. ASSUME NEW k \in DOMAIN Seed
      PROVE  /\ versions[k] \in Seq(ConfigVersion) /\ changes[k] \in Seq(ConfigChange)
             /\ KeyOK(items[k], versions[k], changes[k])
    <2> DEFINE h1 == Snapshot(SeedDraft(k), "created")
               h2 == Snapshot(SeedItem(k), "published")
               c1 == Change(SeedDraft(k), "created", NoValue, Seed[k])
               c2 == Change(SeedItem(k), "published", NoValue, Seed[k])
    <2>1. versions[k] = <<h1, h2>> /\ changes[k] = <<c1, c2>> /\ items[k] = SeedItem(k)
        BY <1>1 DEF Init, IfSeeded
    <2>2. /\ h1 \in ConfigVersion /\ h2 \in ConfigVersion
          /\ c1 \in ConfigChange /\ c2 \in ConfigChange
        BY <1>1, EntriesTyped DEF ChangeType
    <2>3. /\ h1.version = 1 /\ h2.version = 1 /\ h1.value = Seed[k] /\ h2.value = Seed[k]
          /\ h2.status = "published"
          /\ c1.type = "created" /\ c2.type = "published"
          /\ c1.new = Seed[k] /\ c2.new = Seed[k]
        BY DEF Snapshot, Change, SeedDraft, SeedItem
    <2>4. /\ SeedItem(k).version = 1 /\ SeedItem(k).value = Seed[k]
          /\ SeedItem(k).status = "published" /\ SeedItem(k) # NoItem
        BY <1>1, ConfigAssumption DEF SeedItem
    <2> HIDE DEF h1, h2, c1, c2
    <2>5. <<h1, h2>> \in Seq(ConfigVersion) /\ <<c1, c2>> \in Seq(ConfigChange)
        BY <2>2
    <2>6. Linear(<<h1, h2>>)
        BY <2>3 DEF Linear
    <2>7. Chained(<<c1, c2>>)
        BY <2>3 DEF Chained, Left
    <2>8. Left(c2) = Seed[k]
        BY <2>3 DEF Left
    <2>9. Tells(<<c1, c2>>, <<h1, h2>>)
        <3>1. /\ c1.version = h1.version /\ c2.version = h2.version
              /\ c1.type = h1.type /\ c2.type = h2.type
            BY DEF h1, h2, c1, c2, Snapshot, Change
        <3>2. Tells(<<c1>>, <<h1>>)
            <4> DEFINE none == <<>>
            <4>1. /\ none \in Seq(ConfigChange) /\ none \in Seq(ConfigVersion)
                  /\ Append(none, c1) = <<c1>> /\ Append(none, h1) = <<h1>>
                  /\ Tells(none, none)
                BY <2>2, NothingTold
            <4> HIDE DEF none
            <4> QED BY <2>2, <2>3, <3>1, <4>1, AppendBothTells
        <3> DEFINE c == <<c1>>
                   h == <<h1>>
        <3>3. c \in Seq(ConfigChange) /\ h \in Seq(ConfigVersion)
            BY <2>2
        <3>4. Append(c, c2) = <<c1, c2>> /\ Append(h, h2) = <<h1, h2>>
            BY <2>2, AppendToOne DEF c, h
        <3> HIDE DEF c, h
        <3>5. Tells(c, h)
            BY <3>2 DEF c, h
        <3> QED BY <2>2, <2>3, <3>1, <3>3, <3>4, <3>5, AppendBothTells
    <2>10. KeyOK(SeedItem(k), <<h1, h2>>, <<c1, c2>>)
        BY <2>3, <2>4, <2>6, <2>7, <2>8, <2>9 DEF KeyOK
    <2> QED BY <2>1, <2>5, <2>10
<1>3. ASSUME NEW k \in Keys, k \notin DOMAIN Seed
      PROVE  /\ versions[k] = <<>> /\ changes[k] = <<>> /\ items[k] = NoItem
             /\ KeyOK(items[k], versions[k], changes[k])
    <2>1. versions[k] = <<>> /\ changes[k] = <<>> /\ items[k] = NoItem
        BY <1>3 DEF Init, IfSeeded
    <2>2. Linear(<<>>) /\ Chained(<<>>)
        BY DEF Linear, Chained
    <2> QED BY <2>1, <2>2, NothingTold DEF KeyOK
<1>4. KeysOK
    BY <1>2, <1>3 DEF KeysOK
<1>5. \A k \in Keys : items[k] \in Item \cup {NoItem}
    BY <1>1, <1>3 DEF Init, IfSeeded
<1>6. <<>> \in Seq(ConfigVersion) /\ <<>> \in Seq(ConfigChange)
    OBVIOUS
<1>7. \A k \in Keys : versions[k] \in Seq(ConfigVersion) /\ changes[k] \in Seq(ConfigChange)
    BY <1>2, <1>3, <1>6, Zenon
<1>8. StoreTyped
    <2>1. /\ items = [k \in Keys |-> items[k]]
          /\ versions = [k \in Keys |-> versions[k]]
          /\ changes = [k \in Keys |-> changes[k]]
        BY DEF Init
    <2> QED BY <1>5, <1>7, <2>1 DEF StoreTyped
<1>9. RestTyped /\ Listed /\ PushIsCoherent
    <2>1. namespaces \in SUBSET Namespaces
        BY <1>1 DEF Init
    <2>2. Listed
        BY <1>3 DEF Init, Listed
    <2>3. /\ subs \in [Services -> {NotSubscribed} \cup SUBSET Namespaces]
          /\ notified \in [Services -> {"never", "failed", "ok"}]
          /\ tasks \in [Tasks -> Job \cup {NoJob}]
          /\ pushing = NoJob /\ todo = {} /\ pulling = NoService
          /\ views \in [Services -> [Keys -> Item \cup {NoItem}]]
        BY DEF Init
    <2> QED BY <2>1, <2>2, <2>3 DEF RestTyped, PushIsCoherent
<1>10. PushesHaveHistory
    BY DEF Init, PushesHaveHistory
<1> QED BY <1>4, <1>8, <1>9, <1>10 DEF Parts

-----------------------------------------------------------------------------
(* Theorems. *)

\* The inductive invariant holds in every reachable state.
THEOREM ConfigInvariant == Spec => []ConfigInv
<1>1. Init => ConfigInv
    BY ConfigInit, InvParts
<1>2. ConfigInv /\ [Next]_vars => ConfigInv'
    <2> SUFFICES ASSUME ConfigInv, [Next]_vars PROVE ConfigInv'
        OBVIOUS
    <2>1. Parts
        BY InvParts
    <2>2. Parts'
        BY <2>1, ConfigStep
    <2>3. Parts' => ConfigInv'
        BY DEF ConfigInv, Parts, TypeOK, StoreTyped, RestTyped, KeysOK, Listed
    <2> QED BY <2>2, <2>3
<1> QED BY <1>1, <1>2, PTL DEF Spec

\* The state of the configuration centre keeps its types.
THEOREM ConfigTypeCorrect == Spec => []TypeOK
<1>1. ConfigInv => TypeOK
    BY DEF ConfigInv
<1> QED BY <1>1, ConfigInvariant, PTL

\* Version numbers have no gap and never stand for two values.
THEOREM HistoriesAreLinear == Spec => []HistoryIsLinear
<1>1. ConfigInv => HistoryIsLinear
    BY DEF ConfigInv, KeyOK, HistoryIsLinear
<1> QED BY <1>1, ConfigInvariant, PTL

\* The item is the last entry of its history, and its namespace is listed.
THEOREM ItemsAreLatest == Spec => []ItemIsLatest
<1>1. ConfigInv => ItemIsLatest
    BY DEF ConfigInv, KeyOK, ItemIsLatest
<1> QED BY <1>1, ConfigInvariant, PTL

\* The old values of the audit trail are what the entries before them left.
THEOREM AuditTrailsChain == Spec => []AuditChains
<1>1. ConfigInv => AuditChains
    BY DEF ConfigInv, KeyOK, AuditChains
<1> QED BY <1>1, ConfigInvariant, PTL

\* The audit trail without its deletions is the version history, entry by entry,
\* however long both have become.
THEOREM AuditsMatchHistories == Spec => []AuditMatchesHistory
<1>1. ConfigInv => AuditMatchesHistory
    BY DEF ConfigInv, KeyOK, AuditMatchesHistory
<1> QED BY <1>1, ConfigInvariant, PTL

\* Whatever is being pushed, waits to be pushed or has reached a service is in
\* the history under its version number.
THEOREM PushedItemsHaveHistory == Spec => []PushesHaveHistory
<1>1. ConfigInv => PushesHaveHistory
    BY DEF ConfigInv
<1> QED BY <1>1, ConfigInvariant, PTL

\* A push in progress calls only services that are subscribed to it now.
THEOREM PushesAreCoherent == Spec => []PushIsCoherent
<1>1. ConfigInv => PushIsCoherent
    BY DEF ConfigInv
<1> QED BY <1>1, ConfigInvariant, PTL
=============================================================================
