------------------------------ MODULE Catalog ------------------------------
(***************************************************************************)
(* The encodings the database keeps about its trees: the catalog's values, *)
(* the tree-id allocator, and the exported checkpoint image.  Values are   *)
(* token sequences like the log's (module WalCodec): one token per fixed   *)
(* field, one per byte.                                                    *)
(***************************************************************************)
EXTENDS WalCodec

CONSTANT MaxId      \* u64::MAX

CatalogTree == 9            \* DB_CATALOG_TREE_ID
FirstUserTree == 1          \* FIRST_USER_TREE_ID
NextIdKey == <<0, 1>>       \* CATALOG_NEXT_TREE_ID_KEY

EntryMagic == 67
NextIdMagic == 78
LiveState == 1
DroppingState == 2

Entry(tree, state) == [tree |-> tree, state |-> state]
NoEntry == Entry(0, 0)

ValidName(name) == name # <<>> /\ name[1] # 0

EncodeEntry(e) == <<EntryMagic, e.state, e.tree>>
EncodeNextId(tree) == <<NextIdMagic, tree>>

ValidId(tree) == tree # 0 /\ tree # CatalogTree

DecodeEntry(value) ==
    IF Len(value) # 3 \/ value[1] # EntryMagic THEN Fails("db catalog value")
    ELSE IF value[2] \notin {LiveState, DroppingState} THEN Fails("db catalog state")
    ELSE IF ~ValidId(value[3]) THEN Fails("db catalog tree id")
    ELSE Read(Entry(value[3], value[2]), <<>>)

DecodeNextId(value) ==
    IF Len(value) # 2 \/ value[1] # NextIdMagic \/ ~ValidId(value[2])
    THEN Fails("db catalog next tree id") ELSE Read(value[2], <<>>)

\* next_allocated_tree_id: the catalog's own id is never handed out; 0 tells
\* that the ids are exhausted.
NextAllocated(tree) ==
    LET next == IF tree + 1 = CatalogTree THEN tree + 2 ELSE tree + 1
    IN  IF next > MaxId THEN 0 ELSE next

---------------------------------------------------------------------------
(* The exported image.  A family is [name, kvs], kvs a sequence of         *)
(* [key, value] in key order.                                              *)

ImageMagic == 73

PutKv(kv) == Bytes(kv.key) \o Bytes(kv.value)

PutFamily(f) ==
    LET block == Concat(Len(f.kvs), LAMBDA i : PutKv(f.kvs[i]))
    IN  Bytes(f.name) \o Bytes(block)

EncodeImage(families) ==
    <<ImageMagic, Len(families)>> \o Concat(Len(families), LAMBDA i : PutFamily(families[i]))

\* The pairs of a block, until it is used up.
RECURSIVE DecodeBlock(_, _)
DecodeBlock(block, kvs) ==
    IF block = <<>> THEN Read(kvs, <<>>)
    ELSE Then(ReadBytes(block), LAMBDA key, b1 :
         Then(ReadBytes(b1), LAMBDA value, b2 :
              DecodeBlock(b2, Append(kvs, [key |-> key, value |-> value]))))

DecodeFamily(buf) ==
    Then(ReadBytes(buf), LAMBDA name, b1 :
    Then(ReadBytes(b1), LAMBDA block, b2 :
    Then(DecodeBlock(block, <<>>), LAMBDA kvs, b3 :
         Read([name |-> name, kvs |-> kvs], b2))))

DecodeImage(image) ==
    IF Len(image) < 2 \/ image[1] # ImageMagic THEN Fails("bad magic or truncated header")
    ELSE Then(Times(image[2], SubSeq(image, 3, Len(image)), DecodeFamily), LAMBDA fs, rest :
              IF rest # <<>> THEN Fails("trailing bytes") ELSE Read(fs, <<>>))
===========================================================================
