------------------------------ MODULE UiTrees ------------------------------
(***************************************************************************)
(* The sidebars: publishers and consumers grouped into trees by host, path *)
(* or subject, and the rows that a panel shows of them under a filter      *)
(* (ui/src/lib/grouping-utils.ts, publisher-grouping.ts,                   *)
(* consumer-grouping.ts, components/ConsumersPanel.svelte).                *)
(*                                                                         *)
(* Texts are reduced to their words, and a filter is one word.  An entity  *)
(* has a host, "" if none, and a path of segments: the path of a URL, or   *)
(* what a subject, topic or queue has between its dots and slashes.        *)
(***************************************************************************)
EXTENDS Naturals, Sequences, SequencesExt, FiniteSetsExt, TLC

CONSTANTS
  Pool,    \* the entities there may be
  Words,   \* what may be typed into the filter
  MaxEdits \* bound

VARIABLE tree

vars == <<tree>>

Rest(node, seg) == \* the part of a trie below a segment
  LET below == SelectSeq(node, LAMBDA l : l.rest # <<>> /\ l.rest[1] = seg)
  IN  [i \in DOMAIN below |-> [below[i] EXCEPT !.rest = Tail(@)]]

Word(text) == {text} \ {""}

-----------------------------------------------------------------------------
(* Leaves.  The kind of a leaf is the side it is of.                       *)

sanitizeHttpRootUrl(e) == Word(e.host)

\* The whole address of an entity.
Target(e) == Word(e.host) \cup ToSet(e.path)

getPublisherMenuLabel(e, fallback) == IF e.name # "" THEN {e.name} ELSE fallback
getConsumerMenuLabel(e, fallback)  == IF e.name # "" THEN {e.name} ELSE fallback

\* By the order that the user gave, then as the method and the target say, for
\* which the place in the list stands.
buildLeafSortKey(e, i) == <<e.order, i>>

\* Of messages, the tooltip is the subject or, without one, the address.
Tooltip(e) ==
  IF e.type = "http" THEN Target(e) ELSE IF e.path # <<>> THEN ToSet(e.path) ELSE Word(e.host)

createHttpLeaf(e, i) == \* of a publisher
  [kind |-> "publisher", i |-> i, name |-> e.name, key |-> buildLeafSortKey(e, i),
   label |-> getPublisherMenuLabel(e, Target(e)), tooltip |-> Tooltip(e),
   type |-> e.type, rest |-> e.path]

createLeaf(e, i) == \* of a consumer, which are in their own order
  [kind |-> "consumer", i |-> i, name |-> e.name, key |-> <<0, i>>,
   label |-> getConsumerMenuLabel(e, Target(e)), tooltip |-> Tooltip(e),
   type |-> e.type, rest |-> e.path]

Leaf(side, e, i) == IF side = "publishers" THEN createHttpLeaf(e, i) ELSE createLeaf(e, i)

\* In a tree a leaf without a name has the path from the root of its bucket;
\* that of a consumer keeps the whole address.
toRelativeHttpLeaf(leaf, segments) ==
  IF leaf.kind = "consumer" \/ leaf.name # "" THEN leaf ELSE [leaf EXCEPT !.label = ToSet(segments)]

-----------------------------------------------------------------------------
(* Buckets.                                                                *)

splitMessagingSegments(e) == IF e.path = <<>> THEN "Ungrouped" ELSE e.path[1]

\* Of MongoDB the whole target is in the key, of others its first segment.
buildNonHttpGroupInfo(e) ==
  LET key == IF e.type = "mongodb" THEN e.path ELSE <<splitMessagingSegments(e)>>
  IN  [id |-> <<e.type, e.host>> \o key, type |-> e.type,
       tooltip |-> IF e.type = "mongodb" \/ e.host # "" THEN Word(e.host) ELSE ToSet(e.path),
       label |-> {e.type} \cup IF e.host # "" THEN Word(e.host) ELSE ToSet(key)]

createHttpBucket(e) ==
  [id |-> <<"http", e.host>>, type |-> "http", tooltip |-> sanitizeHttpRootUrl(e),
   label |-> {"http"} \cup sanitizeHttpRootUrl(e)]

BucketOf(e) == IF e.type = "http" THEN createHttpBucket(e) ELSE buildNonHttpGroupInfo(e)

\* The first entity with the key makes the bucket, the others join it.
getOrCreateBucket(buckets, leaf, e) ==
  LET b  == BucketOf(e)
      at == {j \in DOMAIN buckets : buckets[j].info.id = b.id}
  IN  IF at = {} THEN Append(buckets, [info |-> b, leaves |-> <<leaf>>])
      ELSE [buckets EXCEPT ![Min(at)].leaves = Append(@, leaf)]

sortGroupLeaves(leaves) ==
  LET Before(a, b) == \/ a.key[1] < b.key[1]
                      \/ a.key[1] = b.key[1] /\ a.key[2] < b.key[2]
  IN  SortSeq(leaves, Before)

commonPathPrefix(leaves) ==
  LET paths == {leaves[i].rest : i \in DOMAIN leaves}
      Of(p, n) == \A q \in paths : Len(q) >= n /\ SubSeq(q, 1, n) = SubSeq(p, 1, n)
      one == leaves[1].rest
  IN  SubSeq(one, 1, Max({n \in 0 .. Len(one) : Of(one, n)}))

nodeForPathPrefix(leaves, prefix) ==
  [i \in DOMAIN leaves |->
     [leaves[i] EXCEPT !.rest = SubSeq(@, Len(prefix) + 1, Len(@))]]

-----------------------------------------------------------------------------
(* The tree of a bucket: a group for every path that several leaves share. *)
(* A node of the trie is the sequence of its leaves with their paths from  *)
(* it.                                                                     *)

Group(id, label, tooltip, children) ==
  [kind |-> "group", id |-> id, label |-> label, tooltip |-> tooltip, children |-> children]

isGroupNode(node) == node.kind = "group"

flattenSingleDescendant(node) == IF Len(node) = 1 THEN node ELSE <<>>

\* A group that is all there is, and has leaves only, is not shown.
unwrapOnlyGroup(children) ==
  IF /\ Len(children) = 1
     /\ isGroupNode(children[1])
     /\ \A i \in DOMAIN children[1].children : ~ isGroupNode(children[1].children[i])
  THEN children[1].children ELSE children

RECURSIVE materializeHttpNodes(_, _, _)
materializeHttpNodes(node, rootId, segments) ==
  LET Relative(leaves, path) ==
        [i \in DOMAIN leaves |-> toRelativeHttpLeaf(leaves[i], path \o leaves[i].rest)]
      exact == Relative(sortGroupLeaves(SelectSeq(node, LAMBDA l : l.rest = <<>>)), segments)
      below == SetToSeq({node[i].rest[1] : i \in {j \in DOMAIN node : node[j].rest # <<>>}})
      alone == exact = <<>> /\ Len(below) = 1
      Child(k) ==
        LET child == Rest(node, below[k])
            path  == Append(segments, below[k])
            flat  == IF alone THEN Relative(flattenSingleDescendant(child), path) ELSE <<>>
        IN  IF flat # <<>> THEN flat ELSE materializeHttpNodes(child, rootId, path)
      children == exact \o FlattenSeq([k \in DOMAIN below |-> Child(k)])
  IN  IF segments = <<>> THEN unwrapOnlyGroup(children)
      ELSE IF alone  \* segments with one way down are joined
      THEN materializeHttpNodes(Rest(node, below[1]), rootId, Append(segments, below[1]))
      ELSE <<Group(rootId \o segments, ToSet(segments), {}, children)>>

materializeBucketChildren(b) ==
  IF b.info.type # "http" THEN [children |-> sortGroupLeaves(b.leaves), label |-> {}]
  ELSE LET prefix == commonPathPrefix(b.leaves)
       IN  [children |-> materializeHttpNodes(nodeForPathPrefix(b.leaves, prefix),
                                              b.info.id \o prefix, <<>>),
            label |-> ToSet(prefix)]

\* A bucket of one leaf is that leaf with the tooltip of the bucket, if it has
\* one: the whole address of a publisher is then its label or, if it has a name,
\* is not found.
collapseSingleLeaf(leaf, b) ==
  LET tooltip == IF b.info.tooltip # {} THEN b.info.tooltip ELSE leaf.tooltip
  IN  IF leaf.kind = "consumer" THEN [leaf EXCEPT !.tooltip = tooltip]
      ELSE [leaf EXCEPT !.tooltip = tooltip,
                        !.label = IF leaf.name # "" THEN {leaf.name}
                                  ELSE IF leaf.tooltip # {} THEN leaf.tooltip ELSE b.info.label]

BucketNode(b) ==
  LET made == materializeBucketChildren(b)
  IN  IF Len(made.children) = 1 /\ ~ isGroupNode(made.children[1])
      THEN collapseSingleLeaf(made.children[1], b)
      ELSE Group(b.info.id, b.info.label \cup made.label, b.info.tooltip, made.children)

Tree(side, entities) ==
  LET Bucketed(bs, i) == getOrCreateBucket(bs, Leaf(side, entities[i], i), entities[i])
      buckets == FoldLeft(Bucketed, <<>>, [i \in DOMAIN entities |-> i])
  IN  [j \in DOMAIN buckets |-> BucketNode(buckets[j])]

buildPublisherTree(entities) == Tree("publishers", entities)
buildConsumerTree(entities)  == Tree("consumers", entities)

-----------------------------------------------------------------------------
(* The rows of a panel.                                                    *)

RECURSIVE collectDefaultExpanded(_)
collectDefaultExpanded(nodes) ==
  UNION {IF isGroupNode(nodes[i])
         THEN {nodes[i].id} \cup collectDefaultExpanded(nodes[i].children) ELSE {} :
           i \in DOMAIN nodes}

\* The publishers' filter has labels and tooltips, the consumers' the type too;
\* the type of a bucket is in its label.
publisherMatches(node, query) == query \in node.label \cup node.tooltip
consumerMatches(node, query)  == query \in node.label \cup node.tooltip \cup {node.type}

RECURSIVE treeNodeMatches(_, _)
treeNodeMatches(node, query) ==
  CASE node.kind = "publisher" -> publisherMatches(node, query)
    [] node.kind = "consumer"  -> consumerMatches(node, query)
    [] isGroupNode(node) ->
         \/ query \in node.label \cup node.tooltip
         \/ \E i \in DOMAIN node.children : treeNodeMatches(node.children[i], query)

\* A group that matches itself is kept, of its children only those that match.
RECURSIVE filterTree(_, _)
filterTree(nodes, query) ==
  IF query = "" THEN nodes
  ELSE FlattenSeq([i \in DOMAIN nodes |->
         LET node == nodes[i]
         IN  IF ~ treeNodeMatches(node, query) THEN <<>>
             ELSE IF ~ isGroupNode(node) THEN <<node>>
             ELSE <<[node EXCEPT !.children = filterTree(node.children, query)]>>])

\* A bug: a group that the user closed stays closed under a filter.
closedStays(t, node) == node.id \in t.expanded

rowIsExpanded(t, node) ==
  node.id \in t.expanded \/ (t.filter # "" /\ treeNodeMatches(node, t.filter))

RECURSIVE flattenTree(_, _)
flattenTree(t, nodes) ==
  FlattenSeq([i \in DOMAIN nodes |->
    IF ~ isGroupNode(nodes[i]) THEN <<nodes[i]>>
    ELSE <<nodes[i]>> \o IF rowIsExpanded(t, nodes[i])
                         THEN flattenTree(t, nodes[i].children) ELSE <<>>])

TreeOf(t) == IF t.side = "publishers" THEN buildPublisherTree(t.entities)
             ELSE buildConsumerTree(t.entities)

visibleTreeRows(t) == flattenTree(t, filterTree(TreeOf(t), t.filter))

\* A group that was not seen before is opened.
ExpandNew(t) ==
  LET groups == collectDefaultExpanded(TreeOf(t))
  IN  [t EXCEPT !.expanded = @ \cup (groups \ t.known), !.known = @ \cup groups]

-----------------------------------------------------------------------------
Init ==
  \E side \in {"publishers", "consumers"}, S \in UNION {kSubset(k, Pool) : k \in 0 .. 3} :
    tree = ExpandNew([side |-> side, entities |-> SetToSeq(S), filter |-> "",
                      expanded |-> {}, known |-> {}, edits |-> 0])

Becomes(t) ==
  /\ tree.edits < MaxEdits
  /\ tree' = [ExpandNew(t) EXCEPT !.edits = tree.edits + 1]

setFilter ==
  \E word \in (Words \cup {""}) \ {tree.filter} : Becomes([tree EXCEPT !.filter = word])

\* A row that is there may be clicked.
toggleGroup ==
  \E node \in ToSet(visibleTreeRows(tree)) :
    /\ isGroupNode(node)
    /\ Becomes([tree EXCEPT !.expanded = IF node.id \in @ THEN @ \ {node.id}
                                         ELSE @ \cup {node.id}])

deleteEntity ==
  \E i \in DOMAIN tree.entities :
    Becomes([tree EXCEPT !.entities = RemoveAt(@, i)])

renameEntity ==
  \E i \in DOMAIN tree.entities, name \in {"", "n1"} :
    Becomes([tree EXCEPT !.entities[i].name = name])

Next ==
  \/ setFilter
  \/ toggleGroup
  \/ deleteEntity
  \/ renameEntity

-----------------------------------------------------------------------------
Leaves(rows) == SelectSeq(rows, LAMBDA r : ~ isGroupNode(r))
AllOpen(t)   == [t EXCEPT !.filter = "", !.expanded = t.known]

(* However paths are joined, flattened and unwrapped, the tree has every   *)
(* entity once; and under a filter the panel shows exactly those that      *)
(* match, once each, whichever groups the user has closed                  *)
(* (materializeHttpNodes, filterTree, flattenTree).                        *)
EachIsListedOnce ==
  LET all   == Leaves(flattenTree(AllOpen(tree), TreeOf(tree)))
      shown == Leaves(visibleTreeRows(tree))
      found == SelectSeq(all, LAMBDA l : treeNodeMatches(l, tree.filter))
  IN  /\ Len(all) = Len(tree.entities)
      /\ {all[i].i : i \in DOMAIN all} = DOMAIN tree.entities
      /\ tree.filter # "" => shown = found

=============================================================================
