---------------------------- MODULE MCDatabase ----------------------------
(***************************************************************************)
(* Databases of one or two trees for TLC.  A case gives two clients a       *)
(* script each; every case has one crash, at any step, and most one        *)
(* failing call.  Lengths are scaled down so that a value can be too long  *)
(* and both run encodings of a batch occur, and keys so that they fall     *)
(* into different frames and endpoint-lock shards.                         *)
(***************************************************************************)
EXTENDS Database

File == INSTANCE WalFile

MCReplay(f) == File!Replay(f)
MCChain(f) == File!ValidateAttached(f)
MCPage(f, cur, rows, bytes, res) == File!ScanPage(f, cur, rows, bytes, res)
MCUpgrade(f) == File!UpgradeHeader(f)
MCHeader(f) == File!Header(f)
MCPersist(f, a, g) == File!PersistGeneration(f, a, g)
MCTear(f, g) == File!TearGeneration(f, g)
MCGenerations(h, a) == File!Generations(h, a)
MCSlots(v) == File!EmptyFile(v).slots

MCFrame(key) == key[1] % 2
MCShard(key) == Len(key) % 2

A == <<7>>
B == <<8>>
R(v, s) == [value |-> v, seq |-> s]
Cat(es, next) ==
    [n \in DOMAIN es |-> R(EncodeEntry(es[n]), 1)] @@ (NextIdKey :> R(EncodeNextId(next), 1))

TA == (<<1>> :> R(<<5>>, 1)) @@ (<<1, 2>> :> R(<<5>>, 2))
TB == (<<2>> :> R(<<5>>, 3))
TwoTrees == (CatalogTree :> Cat((A :> Entry(1, LiveState)) @@ (B :> Entry(2, LiveState)), 3))
            @@ (1 :> TA) @@ (2 :> TB)

Put(k, v) == [kind |-> "Put", key |-> k, value |-> v]
Pia(k, v) == [kind |-> "PutIfAbsent", key |-> k, value |-> v]
Cas(k, v, e) == [kind |-> "CompareAndPut", key |-> k, value |-> v, expected |-> e]
Del(k) == [kind |-> "Delete", key |-> k]
Div(k, e) == [kind |-> "DeleteIfVersion", key |-> k, expected |-> e]
Ren(s, d, f) == [kind |-> "Rename", src |-> s, dst |-> d, force |-> f]
Abs(k) == [kind |-> "AssertAbsent", key |-> k]
Ver(k, e) == [kind |-> "AssertVersion", key |-> k, expected |-> e]
Emp(p) == [kind |-> "AssertPrefixEmpty", prefix |-> p]

W(n, w) == [op |-> "Write", tree |-> n, w |-> w]
Get(n, k) == [op |-> "Get", tree |-> n, key |-> k]
PrefixE(n, p) == [op |-> "PrefixEmpty", tree |-> n, prefix |-> p]
Atomic(n, ops) == [op |-> "Atomic", tree |-> n, ops |-> ops]
Many(n, es) == [op |-> "PutMany", tree |-> n, entries |-> es]
On(n, w) == [tree |-> n, w |-> w]
DbAtomic(ops) == [op |-> "DbAtomic", ops |-> ops]
Attached_(prev, cur, p, ops) ==
    [op |-> "Attached", ops |-> ops,
     envelope |-> [previous |-> prev, current |-> cur, payload |-> p]]
View(ns) == [op |-> "View", scopes |-> ns]
Call(name) == [op |-> name]
Create(n) == [op |-> "Create", name |-> n]
Drop(n) == [op |-> "Drop", name |-> n]
Close(n) == [op |-> "Close", tree |-> n]
InitS(a) == [op |-> "InitStream", anchor |-> a]
PageOp(from, rows, bytes) == [op |-> "Page", from |-> from, rows |-> rows, bytes |-> bytes]
Anchor(s, d) == [sequence |-> s, digest |-> d]

Case(trees, s1, s2, faults, crashes) ==
    [trees |-> trees, version |-> 4, script |-> [c \in Clients |-> IF c = "c1" THEN s1 ELSE s2],
     handles |-> [c \in Clients |-> {A, B}], faults |-> faults, crashes |-> crashes, up |-> TRUE]

OneTree == (CatalogTree :> Cat((A :> Entry(1, LiveState)), 2)) @@ (1 :> TA)
K1 == <<1>>
K2 == <<1, 2>>
K3 == <<2>>
Ck == Call("TreeCheckpoint")
An(s) == Anchor(s, s + 50)
KV(k, v) == [key |-> k, value |-> v]
Long == <<1, 2, 3, 4, 5, 6, 7>>

\* Deferred and conditional writes, renames and reads beside a checkpoint.
Deferred ==
    Case(OneTree, <<W(A, Put(K1, <<6>>)), W(A, Del(K2)), W(A, Put(K2, Long)), W(A, Put(K3, <<6>>))>>,
         <<Ck, Get(A, K1), W(A, Del(K2))>>, 0, 1)
Conditions ==
    Case(OneTree, <<W(A, Pia(K3, <<6>>)), W(A, Cas(K1, <<6>>, 1)), W(A, Div(K2, 2))>>,
         <<W(A, Put(K3, <<5>>)), Ck>>, 1, 1)
Renames ==
    Case(OneTree, <<W(A, Ren(K1, K3, FALSE)), Get(A, K3), W(A, Ren(K3, K2, FALSE)),
                    W(A, Ren(K3, K2, TRUE))>>,
         <<W(A, Del(K2)), Ck, Get(A, K1), W(A, Ren(K2, K2, FALSE))>>, 1, 1)
Prefixes ==
    Case(OneTree, <<W(A, Put(K3, <<6>>)), PrefixE(A, K3), W(A, Del(K1))>>,
         <<W(A, Put(K3, <<5>>)), Ck, Get(A, K3)>>, 1, 1)

\* Batches, views and exports over two trees.
TreeBatches ==
    Case(TwoTrees, <<Atomic(A, <<Put(K1, <<6>>), Del(K2), Emp(<<3>>)>>), W(A, Put(K1, <<5>>)),
                     Atomic(A, <<Ver(K2, 2)>>), Atomic(A, <<Abs(K2), Ren(K1, K3, FALSE)>>)>>,
         <<View(<<A, B>>), Ck>>, 1, 1)
DbBatches ==
    Case(TwoTrees, <<DbAtomic(<<On(A, Put(K1, <<6>>)), On(B, Del(K3)), On(A, Ver(K2, 2))>>),
                     Get(A, K1)>>,
         <<W(B, Put(K3, <<6>>)), View(<<B, A>>), Ck, Get(A, K1)>>, 1, 1)
Exports ==
    Case(TwoTrees, <<W(A, Put(K1, <<6>>)), DbAtomic(<<On(A, Put(K3, <<6>>)), On(B, Del(K3))>>)>>,
         <<Call("Export"), Get(B, K3)>>, 1, 1)
Runs ==
    Case(OneTree, <<Many(A, <<KV(K1, <<6>>), KV(<<2, 1>>, <<5>>), KV(<<2, 2>>, <<5>>),
                              KV(<<2, 1>>, <<6>>), KV(<<2, 1, 1>>, <<5>>),
                              KV(<<2, 1, 1, 1>>, <<5, 5>>)>>),
                    Many(A, <<KV(K1, <<6>>)>>)>>,
         <<W(A, Put(K1, <<5>>)), Ck>>, 1, 1)

\* Trees created, dropped, listed and swept.
Sweeps ==
    Case(OneTree, <<Create(B), W(B, Put(K1, <<6>>)), W(A, Put(K1, <<6>>))>>,
         <<Drop(A), Close(A), Call("Gc"), Get(A, K1)>>, 0, 1)
SweptByCheckpoint ==
    Case(TwoTrees, <<Close(A), Drop(A), Create(<<6>>)>>,
         <<W(A, Put(K1, <<6>>)), Close(A), Call("Checkpoint")>>, 0, 1)
Recreated ==
    Case(OneTree, <<Create(B), Drop(B), Create(B)>>,
         <<Call("List"), DbAtomic(<<On(B, Put(K1, <<6>>))>>), Call("Gc")>>, 1, 1)

\* The attached stream; the second starts from a file of the old format.
Stream ==
    Case(OneTree, <<InitS(An(0)), Attached_(An(0), An(1), <<4>>, <<On(A, Put(K1, <<6>>))>>),
                    Attached_(An(1), An(2), <<4, 4>>, <<On(A, Del(K2))>>)>>,
         <<W(A, Put(K3, <<6>>)), Ck, PageOp(An(0), 2, 9), Call("State")>>, 0, 1)
LegacyStream == [Stream EXCEPT !.version = 3, !.up = FALSE]
TwoAppenders ==
    Case(OneTree, <<InitS(An(0)), Attached_(An(0), An(1), <<4>>, <<On(A, Put(K1, <<6>>))>>),
                    PageOp(An(0), 1, 9), PageOp(An(0), 1, 9)>>,
         <<Attached_(An(0), An(1), <<3>>, <<On(A, Put(K1, <<5>>))>>), Ck, InitS(An(0)),
           Attached_(An(1), An(2), <<3>>, <<On(A, Put(K1, <<5>>))>>)>>, 1, 1)

MCCases == {Deferred, Conditions, Renames, Prefixes, TreeBatches, DbBatches, Exports, Runs,
            Sweeps, SweptByCheckpoint, Recreated, Stream, LegacyStream, TwoAppenders}
===========================================================================
