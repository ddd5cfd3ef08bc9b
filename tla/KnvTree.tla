------------------------------ MODULE KnvTree ------------------------------
(***************************************************************************)
(* knv_node.cc: a message as a tree of KnvNodes.  A node is folded (its    *)
(* value is a buffer) or expanded (lists of metas and children that share  *)
(* the buffer); edits mark the way up to the root dirty and carry the      *)
(* change of length with them, so that Serialize knows every length in     *)
(* advance.  This module is about lengths, dirtiness and contents; the     *)
(* hash index of the children and the owners of the buffers are left out.  *)
(*                                                                         *)
(* An API call that needs an expanded node calls Expand() first; here the  *)
(* two are two steps, because the state in between is one that Expand()    *)
(* leaves to its other callers as well.  The loop that climbs to the root  *)
(* (UpdateParentEvalueAndSetDirty) is one step per ancestor.               *)
(***************************************************************************)
EXTENDS KnvWire, FiniteSets

CONSTANTS
  Nodes,        \* the objects of the node pool, 1 .. N; the root is 1
  Docs,         \* fields that KnvNode::New parses into the first tree
  Ints, Strs,   \* values that callers set and insert
  Keys,         \* keys that callers set
  Known,        \* all these values, and those in their fields
  ChildTags,    \* tags of inserted children, above UC_MAX_META_NUM
  MetaTags,     \* tags of metas other than the key
  Retags,       \* arguments of SetTag
  MaxEdits,     \* number of edits in a behaviour
  Careless      \* uses of the API that its comments do not expect:
                \* "leaf"     children or metas for a leaf that has a value
                \* "detached" edits of a node after DetachChild
                \* "repeat"   repeated metas (AddMeta)
                \* "retag"    SetTag of a node with children and a buffer
                \* "metakey"  RemoveMeta of the key of a meta

NULL == 0
Root == 1
NoKey == Empty

ASSUME NodesAssumption ==
  Root \in Nodes /\ IsFiniteSet(Nodes) /\ Nodes = 1 .. Cardinality(Nodes)
ASSUME TagsAssumption ==
  /\ ChildTags \subseteq Nat /\ Retags \subseteq Nat
  /\ \A t \in ChildTags \union Retags : t > UC_MAX_META_NUM
  /\ MetaTags \subseteq 2 .. UC_MAX_META_NUM
ASSUME KnownAssumption ==
  /\ ValueSet(Known) /\ Empty \in Known
  /\ \A x \in Known : AsWritten(x)
  /\ \A f \in Docs : IsField(Known, f)
  /\ Ints \subseteq {x \in Known : x.kind = "int"}
  /\ Strs \subseteq {x \in Known : x.kind # "int"}
  /\ Keys \subseteq {x \in Known : x.len > 0}
ASSUME MaxEditsAssumption == MaxEdits \in Nat

VARIABLES
  heap,         \* Nodes -> KnvNode
  up,           \* the climb in progress: the node to update next (NULL for
                \* none), the change of length, updateeval, updatedirty
  edits         \* number of edits so far

treeVars == <<heap, up, edits>>

\* metas is only read while metalist is not empty, so it is cleared with it.
NoMetas == [t \in MetaTags \union {1} |-> NULL]

\* A node in the pool.  tag = 0 is !IsValid().  child_num >= 0 is "expanded";
\* the number itself is Len(childlist).
Released ==
  [tag |-> 0, type |-> "node", val |-> Empty, key |-> NoKey, no_key |-> FALSE,
   expanded |-> FALSE, childlist |-> <<>>, metalist |-> <<>>,
   metas |-> NoMetas,
   subnode_dirty |-> FALSE, parent |-> NULL, eval_sz |-> 0, eval_val_sz |-> 0]

Idle == [p |-> NULL, offset |-> 0, eval |-> FALSE, dirty |-> FALSE]

TypeOf(x) == IF x.kind = "int" THEN "int" ELSE "node"

\* InitNode: force_no_key is set for metas.  The length of the field is the
\* one it had in the buffer it was parsed from.
InitNode(f, parent, force_no_key) ==
  LET x == f.val
      parsed == ~force_no_key /\ Begins(x)
  IN  [Released EXCEPT
         !.tag = f.tag, !.type = TypeOf(x), !.val = x, !.parent = parent,
         !.eval_val_sz = IF TypeOf(x) = "node" THEN x.len ELSE 0,
         !.eval_sz = f.len,
         !.key = IF parsed /\ x.fields[1].tag = 1 THEN x.fields[1].val ELSE NoKey,
         !.no_key = force_no_key \/ TypeOf(x) # "node",
         !.expanded = TypeOf(x) # "node" \/ x.len = 0 \/ (~force_no_key /\ ~Begins(x))]

TreeInit ==
  /\ \E f \in Docs :
       heap = [n \in Nodes |-> IF n = Root THEN InitNode(f, NULL, FALSE) ELSE Released]
  /\ up = Idle
  /\ edits = 0

-----------------------------------------------------------------------------
(***************************************************************************)
(* The shape of the tree.                                                  *)
(***************************************************************************)
Lists(h, n) == h[n].metalist \o h[n].childlist

\* A node and all nodes below it.
Below(h, n) ==
  LET below[m \in Nodes] == {m} \union UNION {below[c] : c \in ToSet(Lists(h, m))}
  IN  below[n]

\* On the way up from n every node is in a list of the next one, to the root.
InTree(n) ==
  LET in[m \in Nodes] ==
        m = Root \/ ( /\ heap[m].tag # 0 /\ heap[m].parent # NULL
                      /\ m \in ToSet(Lists(heap, heap[m].parent))
                      /\ in[heap[m].parent] )
  IN  in[n]

\* ReleaseObject of a set of nodes: the pool has them again.
Release(h, S) == [n \in Nodes |-> IF n \in S THEN Released ELSE h[n]]

BelowAll(h, list) == UNION {Below(h, n) : n \in ToSet(list)}

\* The objects the pool would return next.
Unused(h)   == {n \in Nodes : h[n].tag = 0}
NewNodes(h) == Keep([i \in 1 .. Cardinality(Nodes) |-> i], Unused(h))

IsMeta(n) == heap[n].parent # NULL /\ n \in ToSet(heap[heap[n].parent].metalist)

Idling == up = Idle

\* Nodes that a caller edits: those of the tree, and detached ones if it is
\* careless.  The node that carries the key is edited by SetKey.
Editable(n) ==
  /\ Idling /\ edits < MaxEdits
  /\ heap[n].tag # 0
  /\ ~InTree(n) => "detached" \in Careless /\ heap[heap[n].parent].tag # 0
  /\ ~(IsMeta(n) /\ heap[n].tag = 1)

\* Nodes that can take another child or meta.
Extensible(n) ==
  /\ Editable(n)
  /\ heap[n].type = "node" /\ heap[n].expanded
  /\ Lists(heap, n) = <<>> /\ "leaf" \notin Careless => heap[n].eval_val_sz = 0

-----------------------------------------------------------------------------
(***************************************************************************)
(* Serialize: what the subtree of n would be written as, without header.   *)
(* A leaf, a folded node and a clean one are copied from their buffer; all *)
(* others are put together: key, metas, children.                          *)
(***************************************************************************)
IsBufferValid(h, n) == h[n].val.len > 0

Plain(h, n) ==
  \/ h[n].type # "node"
  \/ ~h[n].expanded
  \/ Lists(h, n) = <<>>
  \/ IsBufferValid(h, n) /\ ~h[n].subnode_dirty

HasKey(h, n) == ~h[n].no_key /\ h[n].key.len > 0

\* The metas that are written: the first one is skipped if it is the key.
WrittenMetas(h, n) ==
  IF HasKey(h, n) /\ h[n].metalist # <<>> /\ h[Head(h[n].metalist)].tag = 1
  THEN Tail(h[n].metalist)
  ELSE h[n].metalist

Serialize(h) ==
  LET out[n \in Nodes] ==
        IF Plain(h, n) THEN h[n].val
        ELSE LET parts == WrittenMetas(h, n) \o h[n].childlist
                 key == IF HasKey(h, n) THEN <<Field(1, h[n].key)>> ELSE <<>>
                 part(i) == Once(LAMBDA x : Field(h[parts[i]].tag, x), out[parts[i]])
             IN  Once(Msg, key \o [i \in DOMAIN parts |-> part(i)])
  IN  out

\* The check at the end of Serialize: what was written has the length that
\* EvaluateSize promised.
Measured(h, n, out) ==
  ~Plain(h, n) => /\ h[n].eval_val_sz = out.len
                  /\ h[n].eval_sz = FieldLen(h[n].tag, out)

-----------------------------------------------------------------------------
(***************************************************************************)
(* Expand and Fold, which change how a node is kept and not what it is.    *)
(***************************************************************************)
\* if this is tag 1, and parent has key, this node is probably a key
ProbablyKey(n) ==
  heap[n].tag = 1 /\ heap[n].parent # NULL /\ heap[heap[n].parent].key.len > 0

MetaFields(x)  == {f \in ToSet(x.fields) : f.tag <= UC_MAX_META_NUM}
ChildFields(x) == {f \in ToSet(x.fields) : f.tag > UC_MAX_META_NUM}

\* metas[tag] is the last meta of that tag.
LastOf(metalist, fields, t) ==
  LET places == {i \in DOMAIN fields : fields[i].tag = t}
  IN  IF places = {} THEN NULL
      ELSE metalist[CHOOSE i \in places : \A j \in places : j <= i]

Expand(n) ==
  /\ Idling /\ InTree(n) /\ ~heap[n].expanded
  /\ IF ProbablyKey(n) \/ ~Begins(heap[n].val)
     THEN heap' = [heap EXCEPT ![n].expanded = TRUE]
     ELSE IF ~Parses(heap[n].val) \* message not ending correctly
     THEN /\ Len(heap[n].val.fields) <= Cardinality(Unused(heap))
          /\ heap' = [heap EXCEPT ![n].expanded = TRUE, ![n].subnode_dirty = FALSE]
     ELSE LET ms == Keep(heap[n].val.fields, MetaFields(heap[n].val))
              cs == Keep(heap[n].val.fields, ChildFields(heap[n].val))
              new == NewNodes(heap)
              metalist == SubSeq(new, 1, Len(ms))
              childlist == SubSeq(new, Len(ms) + 1, Len(ms) + Len(cs))
              fields == ms \o cs
              Place(m) == CHOOSE i \in DOMAIN new : new[i] = m
          IN  /\ Len(fields) <= Len(new)
              /\ heap' = [m \in Nodes |->
                   IF m = n
                   THEN [heap[n] EXCEPT
                           !.expanded = TRUE, !.subnode_dirty = FALSE,
                           !.metalist = metalist, !.childlist = childlist,
                           !.metas = [t \in DOMAIN @ |-> LastOf(metalist, ms, t)]]
                   ELSE IF m \in ToSet(metalist \o childlist)
                   THEN InitNode(fields[Place(m)], n, Place(m) <= Len(ms))
                   ELSE heap[m]]
  /\ UNCHANGED <<up, edits>>

\* The pool is exhausted in the middle of Expand: the node ends as a leaf.
ExpandFail(n) ==
  /\ Idling /\ InTree(n) /\ ~heap[n].expanded
  /\ ~ProbablyKey(n)
  /\ Len(heap[n].val.fields) > Cardinality(Unused(heap))
  /\ heap' = [heap EXCEPT ![n].expanded = TRUE]
  /\ UNCHANGED <<up, edits>>

\* When a length check fails Fold returns an error and changes nothing.
Fold(n) ==
  LET out == Serialize(heap) IN
  /\ Idling /\ InTree(n) /\ ~Plain(heap, n)
  /\ \A m \in Below(heap, n) : Measured(heap, m, out[m])
  /\ heap' = [Release(heap, Below(heap, n) \ {n}) EXCEPT
                ![n].val = out[n], ![n].subnode_dirty = FALSE,
                ![n].expanded = FALSE, ![n].metalist = <<>>, ![n].metas = NoMetas,
                ![n].childlist = <<>>]
  /\ UNCHANGED <<up, edits>>

-----------------------------------------------------------------------------

UPDATE_EVAL_SZ(h, n, offset) ==
  IF offset = 0 THEN h
  ELSE [h EXCEPT ![n].eval_val_sz = @ + offset,
                 ![n].eval_sz = StrFieldLen(h[n].tag, h[n].eval_val_sz + offset)]


SET_VALUE_DIRTY(h, n) == [h EXCEPT ![n].val = Empty, ![n].subnode_dirty = TRUE]

\* Mutant: a change that keeps the length is not reported.
UpdateParentIfLonger(n, offset) ==
  up' = IF heap[n].parent = NULL \/ offset = 0 THEN Idle
        ELSE [p |-> heap[n].parent, offset |-> offset, eval |-> TRUE, dirty |-> TRUE]

\* UpdateParentEvalueAndSetDirty, up to its loop.
UpdateParent(n, offset) ==
  up' = IF heap[n].parent = NULL THEN Idle
        ELSE [p |-> heap[n].parent, offset |-> offset, eval |-> offset # 0, dirty |-> TRUE]

\* One round of the loop.  p is dirty, all upper parents are dirty already
Climb ==
  LET p == up.p
      eval == up.eval /\ up.offset # 0
      dirty == up.dirty /\ ~heap[p].subnode_dirty
      h1 == IF eval THEN UPDATE_EVAL_SZ(heap, p, up.offset) ELSE heap
  IN  /\ up # Idle
      /\ heap' = IF dirty THEN SET_VALUE_DIRTY(h1, p) ELSE h1
      /\ up' = IF heap[p].parent = NULL \/ ~(eval \/ dirty) THEN Idle
               ELSE [p |-> heap[p].parent,
                     offset |-> IF eval THEN h1[p].eval_sz - heap[p].eval_sz ELSE up.offset,
                     eval |-> eval, dirty |-> dirty]
      /\ UNCHANGED edits

\* What the editing calls have in common after they changed the lists of n:
\* its length changes by offset, its buffer is out of date, and up.
Changed(h, n, offset) ==
  LET h1 == UPDATE_EVAL_SZ(h, n, offset)
  IN  /\ heap' = SET_VALUE_DIRTY(h1, n)
      /\ UpdateParent(n, h1[n].eval_sz - h[n].eval_sz)
      /\ edits' = edits + 1

-----------------------------------------------------------------------------
(***************************************************************************)
(* SetValue and SetTag.                                                    *)
(***************************************************************************)
\* The key after SetValue(x).  The check that the key stays the same is made
\* with the fields of x that are not a key, and on the key itself.
KeyAfterSet(n, x) ==
  LET first(test) == IF Begins(x) /\ (x.fields[1].tag = 1) = test THEN x.fields[1].val ELSE NoKey
      checked == /\ HasKey(heap, n) /\ heap[n].expanded
                 /\ heap[n].childlist # <<>> \/ heap[n].metalist = <<>>
      key == IF checked THEN first(FALSE) ELSE heap[n].key
  IN  IF ~heap[n].no_key /\ key.len > 0 THEN first(TRUE) ELSE key

\* SetValue(str_val, len, own_buf)
SetValueStr(n, x) ==
  /\ Editable(n) /\ heap[n].type = "node"
  /\ LET h == [Release(heap, Below(heap, n) \ {n}) EXCEPT
                 ![n].val = x, ![n].key = KeyAfterSet(n, x),
                 ![n].expanded = FALSE, ![n].metalist = <<>>, ![n].metas = NoMetas,
                 ![n].childlist = <<>>, ![n].subnode_dirty = TRUE]
         h1 == UPDATE_EVAL_SZ(h, n, x.len - h[n].eval_val_sz)
     IN  /\ heap' = h1
         /\ UpdateParent(n, h1[n].eval_sz - h[n].eval_sz)
  /\ edits' = edits + 1

\* SetValue(int_val)
SetValueInt(n, x) ==
  /\ Editable(n) /\ heap[n].type = "int"
  /\ heap' = [heap EXCEPT ![n].val = x, ![n].eval_sz = FieldLen(heap[n].tag, x),
                          ![n].eval_val_sz = 0, ![n].subnode_dirty = TRUE]
  /\ UpdateParent(n, FieldLen(heap[n].tag, x) - heap[n].eval_sz)
  /\ edits' = edits + 1

\* Retags above UC_MAX_META_NUM, and not on metas: a child stays a child.
SetTag(n, t) ==
  /\ Editable(n) /\ ~IsMeta(n)
  /\ Lists(heap, n) # <<>> /\ IsBufferValid(heap, n) => "retag" \in Careless
  /\ LET sz == IF heap[n].type = "node" THEN StrFieldLen(t, heap[n].eval_val_sz)
                                        ELSE FieldLen(t, heap[n].val)
     IN  /\ heap' = [heap EXCEPT ![n].tag = t, ![n].eval_sz = sz, ![n].subnode_dirty = TRUE]
         /\ UpdateParent(n, sz - heap[n].eval_sz)
  /\ edits' = edits + 1

-----------------------------------------------------------------------------
(***************************************************************************)
(* Metas.                                                                  *)
(***************************************************************************)
\* GetMeta
MetaOf(h, n, t) == IF h[n].metalist = <<>> THEN NULL ELSE h[n].metas[t]


\* if it is a key, we need to make sure it is at the first position
Placed(list, t, m) == IF t = 1 THEN <<m>> \o list ELSE Append(list, m)

\* The heap after SetMeta(tag, x) has changed the meta itself.  When it needs
\* an object and there is none, SetMeta fails and changes nothing.
WithMeta(h, n, t, x) ==
  LET m == MetaOf(h, n, t)
      new == NewNodes(h)[1]
  IN  IF m = NULL
      THEN [h EXCEPT
              ![new] = InitNode(Field(t, x), n, TRUE),
              ![n].metas = [u \in DOMAIN @ |-> IF u = t THEN new
                                               ELSE MetaOf(h, n, u)],
              ![n].metalist = Placed(@, t, new)]
      ELSE [Release(h, Below(h, m) \ {m}) EXCEPT
              ![m].type = TypeOf(x), ![m].val = x,
              ![m].expanded = @ /\ ~h[n].no_key /\ t = 1,
              ![m].metalist = <<>>, ![m].childlist = <<>>,
              ![m].eval_val_sz = IF TypeOf(x) = "node" THEN x.len ELSE 0,
              ![m].eval_sz = FieldLen(t, x)]

CanSetMeta(h, n, t) == MetaOf(h, n, t) = NULL => Unused(h) # {}

MetaSize(h, n, t) == IF MetaOf(h, n, t) = NULL THEN 0 ELSE h[MetaOf(h, n, t)].eval_sz

\* SetMeta of a tag that is not the key.
SetMeta(n, t, x) ==
  /\ Extensible(n) /\ CanSetMeta(heap, n, t)
  /\ Changed(WithMeta(heap, n, t, x), n, FieldLen(t, x) - MetaSize(heap, n, t))

\* SetMeta of the key: SetKey, unless the node has no key by itself.
SetKey(n, k) ==
  /\ Extensible(n) /\ CanSetMeta(heap, n, 1)
  /\ LET h == IF heap[n].no_key THEN heap ELSE [heap EXCEPT ![n].key = k]
     IN  Changed(WithMeta(h, n, 1, k), n, FieldLen(1, k) - MetaSize(heap, n, 1))

Drop(list, n) == Keep(list, Nodes \ {n})

Tagged(t) == {m \in Nodes : heap[m].tag = t}

\* RemoveMeta(tag), through InnerRemoveMeta and, for the key, SetKey.
RemoveMeta(n, t) ==
  LET m == MetaOf(heap, n, t)
      h == IF t = 1 THEN [heap EXCEPT ![n].key = NoKey, ![n].no_key = FALSE] ELSE heap
  IN  /\ Extensible(n)
      /\ t = 1 /\ IsMeta(n) => "metakey" \in Careless
      /\ \/ /\ m # NULL
            /\ Changed([Release(h, Below(heap, m)) EXCEPT
                          ![n].metalist = Drop(@, m), ![n].metas[t] = NULL],
                       n, -heap[m].eval_sz)
         \/ /\ m = NULL /\ h # heap
            /\ heap' = h
            /\ edits' = edits + 1
            /\ UNCHANGED up

\* AddMeta where there is one already; metas[tag] stays.
AddMeta(n, t, x) ==
  /\ "repeat" \in Careless
  /\ Extensible(n) /\ MetaOf(heap, n, t) # NULL /\ Unused(heap) # {}
  /\ LET new == NewNodes(heap)[1]
     IN  Changed([heap EXCEPT ![new] = InitNode(Field(t, x), n, TRUE),
                              ![n].metalist = Append(@, new)],
                 n, FieldLen(t, x))

SumEval(list) == SumTo([i \in 1 .. Len(list) |-> heap[list[i]].eval_sz], Len(list))

\* RemoveMetaByTag: all metas of the tag, and with them the key.
RemoveMetaByTag(n, t) ==
  LET gone == Keep(heap[n].metalist, Tagged(t))
      h == IF t = 1 /\ ~heap[n].no_key THEN [heap EXCEPT ![n].key = NoKey] ELSE heap
  IN  /\ Extensible(n) /\ MetaOf(heap, n, t) # NULL
      /\ Changed([Release(h, BelowAll(heap, gone)) EXCEPT
                    ![n].metalist = Keep(@, Nodes \ Tagged(t)),
                    ![n].metas[t] = NULL],
                 n, -SumEval(gone))

-----------------------------------------------------------------------------
(***************************************************************************)
(* Children.                                                               *)
(***************************************************************************)
\* INSERT_CHILD, the hash index left out.
WithChild(h, p, c, at_tail) ==
  [h EXCEPT ![p].childlist = IF at_tail THEN Append(@, c) ELSE <<c>> \o @]

\* InsertChild(tag, type, data): New, and InnerInsertChild of the new node.
InsertChild(p, t, x, at_tail) ==
  LET new == NewNodes(heap)[1]
  IN  /\ Extensible(p) /\ Unused(heap) # {}
      /\ Changed(WithChild([heap EXCEPT ![new] = InitNode(Field(t, x), p, FALSE)], p, new, at_tail),
                 p, FieldLen(t, x))

\* InsertSubNode(tag, key): New sets the key, which is SetMeta on the new node.
KeyedNode(t, k, parent, meta) ==
  [InitNode(Field(t, Empty), parent, FALSE) EXCEPT
     !.key = k, !.metalist = <<meta>>, !.metas[1] = meta, !.subnode_dirty = TRUE,
     !.eval_val_sz = FieldLen(1, k), !.eval_sz = StrFieldLen(t, FieldLen(1, k))]

InsertSubNode(p, t, k) ==
  LET new == NewNodes(heap)
  IN  /\ Extensible(p) /\ Len(new) >= 2
      /\ Changed(WithChild([heap EXCEPT ![new[1]] = KeyedNode(t, k, p, new[2]),
                                        ![new[2]] = InitNode(Field(1, k), new[1], TRUE)],
                           p, new[1], TRUE),
                 p, StrFieldLen(t, FieldLen(1, k)))


\* RemoveChild, Remove: RemoveChildByPos.
RemoveChild(n) ==
  LET p == heap[n].parent
  IN  /\ p # NULL /\ InTree(n) /\ Extensible(p) /\ n \in ToSet(heap[p].childlist)
      /\ Changed([Release(heap, Below(heap, n)) EXCEPT ![p].childlist = Drop(@, n)],
                 p, -heap[n].eval_sz)

RemoveChildrenByTag(p, t) ==
  LET gone == Keep(heap[p].childlist, Tagged(t))
  IN  /\ Extensible(p) /\ gone # <<>>
      /\ Changed([Release(heap, BelowAll(heap, gone)) EXCEPT
                    ![p].childlist = Keep(@, Nodes \ Tagged(t))],
                 p, -SumEval(gone))

\* Detach, DetachChild: the parent pointer of the node stays as it is.
DetachChild(n) ==
  LET p == heap[n].parent
  IN  /\ p # NULL /\ InTree(n) /\ Extensible(p) /\ n \in ToSet(heap[p].childlist)
      /\ Changed([heap EXCEPT ![p].childlist = Drop(@, n)], p, -heap[n].eval_sz)

Detached(n) == heap[n].tag # 0 /\ \A p \in Nodes : n \notin ToSet(Lists(heap, p))

\* Mutant: the parent pointer is not moved.
AdoptStale(p, n) ==
  /\ n # Root /\ Detached(n)
  /\ InTree(p) /\ Extensible(p)
  /\ Changed(WithChild(heap, p, n, TRUE), p, heap[n].eval_sz)

\* InsertChild(child, take_ownership = true) of a detached node.
Adopt(p, n) ==
  /\ n # Root /\ Detached(n)
  /\ InTree(p) /\ Extensible(p)
  /\ Changed(WithChild([heap EXCEPT ![n].parent = p], p, n, TRUE), p, heap[n].eval_sz)

\* InnerDuplicate: a buffer is copied whenever there is one.  The length of
\* the copy is that of the original.
DuplicateVal(n) ==
  IF heap[n].type = "node" /\ heap[n].val.len = 0 /\ heap[n].expanded
  THEN Serialize(heap)[n] ELSE heap[n].val

Duplicate(n, parent) ==
  InitNode([tag |-> heap[n].tag, val |-> DuplicateVal(n), len |-> heap[n].eval_sz], parent, FALSE)

\* InsertChild(child, take_ownership = false) of a node of the same tree.
InsertCopy(p, n) ==
  LET new == NewNodes(heap)[1]
      out == Serialize(heap)
  IN  /\ InTree(n) /\ heap[n].tag > UC_MAX_META_NUM
      /\ InTree(p) /\ Extensible(p) /\ Unused(heap) # {}
      /\ heap[n].val.len = 0 => \A m \in Below(heap, n) : Measured(heap, m, out[m])
      /\ Changed(WithChild([heap EXCEPT ![new] = Duplicate(n, p)], p, new, TRUE),
                 p, heap[n].eval_sz)

-----------------------------------------------------------------------------
ValueEdits(n) ==
  \/ \E x \in Strs : SetValueStr(n, x)
  \/ \E x \in Ints : SetValueInt(n, x)
  \/ \E t \in Retags : SetTag(n, t)

MetaEdits(n) ==
  \/ \E t \in MetaTags, x \in Ints \union Strs : SetMeta(n, t, x) \/ AddMeta(n, t, x)
  \/ \E k \in Keys : SetKey(n, k)
  \/ \E t \in MetaTags \union {1} : RemoveMeta(n, t) \/ RemoveMetaByTag(n, t)

ChildEdits(n) ==
  \/ \E t \in ChildTags, x \in Ints \union Strs, at_tail \in BOOLEAN : InsertChild(n, t, x, at_tail)
  \/ \E t \in ChildTags, k \in Keys : InsertSubNode(n, t, k)
  \/ RemoveChild(n)
  \/ \E t \in ChildTags : RemoveChildrenByTag(n, t)
  \/ DetachChild(n)
  \/ \E p \in Nodes : Adopt(p, n) \/ InsertCopy(p, n)

Keeping(n) == Expand(n) \/ ExpandFail(n) \/ Fold(n)

TreeNext ==
  \/ Climb
  \/ \E n \in Nodes : Keeping(n) \/ ValueEdits(n) \/ MetaEdits(n) \/ ChildEdits(n)

TreeSpec == TreeInit /\ [][TreeNext]_treeVars
-----------------------------------------------------------------------------
(***************************************************************************)
(* Properties.                                                             *)
(***************************************************************************)
NodeOrNull == Nodes \union {NULL}

\* Types of all variables; the nodes of the tree are valid ones, and a node
\* is in one list once, that of its parent.
TreeOK ==
  /\ \A n \in Nodes :
       /\ heap[n].tag \in Nat /\ heap[n].type \in {"node", "int"}
       /\ heap[n].parent \in NodeOrNull
       /\ heap[n].metas \in [MetaTags \union {1} -> NodeOrNull]
       /\ heap[n].eval_sz \in Nat /\ heap[n].eval_val_sz \in Nat
       /\ heap[n].subnode_dirty \in BOOLEAN /\ heap[n].expanded \in BOOLEAN
       /\ IsInjective(Lists(heap, n))
       /\ \A c \in ToSet(Lists(heap, n)) :
            c # Root /\ heap[c].tag # 0 /\ heap[c].parent = n
  /\ up.p \in NodeOrNull /\ up.offset \in Int
  /\ edits \in 0 .. MaxEdits


\* Line 1529, "p is dirty, all upper parents are dirty already", on which the
\* climb relies when it stops early.
DirtyToRoot ==
  Idling => \A n \in Nodes : InTree(n) /\ n # Root /\ heap[n].subnode_dirty
              => heap[heap[n].parent].subnode_dirty

\* A buffer that Serialize and Fold trust says what the lists say (lines 941,
\* 997 and 1056: "already folded").
BufferCurrent ==
  Idling => \A n \in Nodes :
    InTree(n) /\ heap[n].expanded /\ Lists(heap, n) # <<>>
      /\ IsBufferValid(heap, n) /\ ~heap[n].subnode_dirty
      => heap[n].val = Serialize(SET_VALUE_DIRTY(heap, n))[n]


\* Line 775: "Make a new tree identical to current tree".
DuplicateIdentical ==
  Idling => \A n \in Nodes : InTree(n) => DuplicateVal(n) = Serialize(heap)[n]


=============================================================================
