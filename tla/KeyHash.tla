------------------------------- MODULE KeyHash -------------------------------
(***************************************************************************)
(* The hash table THash (glib/base/hash.h) as far as the key dictionary    *)
(* uses it: a vector KeyDatV of entries, whose positions are the key ids,  *)
(* and the list of free positions that deletions leave, the last one       *)
(* first.  Buckets and chains, which find the position of a key, are left  *)
(* out; key ids count from 1 here, and 0 stands for FFirstKeyId() and -1.  *)
(***************************************************************************)
EXTENDS Naturals, Sequences

CONSTANTS DictKey, DictPt,
          NoKey,  \* TKey() in a free entry (HashCd = -1)
          NoDictPt   \* TBlobPt()

Entry == [key : DictKey \cup {NoKey}, pt : DictPt \cup {NoDictPt}]
Hash  == [KeyDatV : Seq(Entry), FreeV : Seq(Nat \ {0})]

FreeEntry == [key |-> NoKey, pt |-> NoDictPt]
EmptyHash == [KeyDatV |-> <<>>, FreeV |-> <<>>]

HIds(h)  == {n \in DOMAIN h.KeyDatV : h.KeyDatV[n].key # NoKey}
HKeys(h) == {h.KeyDatV[n].key : n \in HIds(h)}

\* THash::GetKeyId of a key that is there, and GetDat.
HKeyId(h, k)  == CHOOSE n \in HIds(h) : h.KeyDatV[n].key = k
HGetDat(h, k) == h.KeyDatV[HKeyId(h, k)].pt

HLen(h) == Len(h.KeyDatV) - Len(h.FreeV)

\* THash::AddDat.
HAddDat(h, k, p) ==
  IF k \in HKeys(h) THEN [h EXCEPT !.KeyDatV[HKeyId(h, k)].pt = p]
  ELSE IF h.FreeV = <<>>
       THEN [h EXCEPT !.KeyDatV = Append(@, [key |-> k, pt |-> p])]
       ELSE [KeyDatV |-> [h.KeyDatV EXCEPT ![Head(h.FreeV)] = [key |-> k, pt |-> p]],
             FreeV |-> Tail(h.FreeV)]

\* THash::DelKey of a key that is there.
HDelKey(h, k) ==
  [KeyDatV |-> [h.KeyDatV EXCEPT ![HKeyId(h, k)] = FreeEntry],
   FreeV |-> <<HKeyId(h, k)>> \o h.FreeV]

\* THash::FNextKeyId: the next position that is not free, 0 if there is none.
HNext(h, id) ==
  LET Later == {n \in HIds(h) : n > id}
  IN IF Later = {} THEN 0 ELSE CHOOSE n \in Later : \A m \in Later : n <= m
=============================================================================
