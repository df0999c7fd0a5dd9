------------------------------- MODULE Layout -------------------------------
(***************************************************************************)
(* How the items of a leaf are laid out on its pages: the 64-bit           *)
(* leafPageElement (page.go), node.write and node.read (node.go).          *)
(*                                                                         *)
(* A 64-bit word is the set of the positions of its bits that are 1.       *)
(* Offsets count from the start of the page.  An item has the sizes of its *)
(* key and value and its flags.                                            *)
(***************************************************************************)
EXTENDS Node

MaxKeySize == 8191
MaxValueSize == 16777215

Bits(n) == {i \in 0..30 : (n \div 2^i) % 2 = 1}

ShiftLeft(w, k) == {i + k : i \in w} \intersect 0..63

(* (w >> k) & (1 << width - 1), as a number.                                *)
Field(w, k, width) ==
  FoldSet(LAMBDA i, n : n + 2^(i - k), 0, w \intersect k..(k + width - 1))

(* A bug: keys have one bit less.                                           *)
fillNarrow(flags, pos, ksize, vsize) ==
  ShiftLeft(Bits(flags), 63) \union ShiftLeft(Bits(pos), 36)
    \union ShiftLeft(Bits(ksize), 24) \union Bits(vsize)

(* leafPageElement.fill, and the four accessors.                            *)
fill(flags, pos, ksize, vsize) ==
  ShiftLeft(Bits(flags), 63) \union ShiftLeft(Bits(pos), 37)
    \union ShiftLeft(Bits(ksize), 24) \union Bits(vsize)

flagsOf(w) == Field(w, 63, 1)
posOf(w) == Field(w, 37, 26)
ksizeOf(w) == Field(w, 24, 13)
vsizeOf(w) == Field(w, 0, 24)

elemAt(i) == pageHeaderSize + (i - 1) * pageElementSize(TRUE)

(* Where the bytes of item i begin: behind the elements and the items       *)
(* before it.                                                               *)
dataAt(items, i) ==
  FoldLeft(LAMBDA n, x : n + x.ksize + x.vsize, elemAt(Len(items) + 1),
           SubSeq(items, 1, i - 1))

(* node.write: the elements of a leaf page.                                 *)
writeElems(items) ==
  [i \in DOMAIN items |-> fill(items[i].flags, dataAt(items, i) - elemAt(i),
                               items[i].ksize, items[i].vsize)]

(* What node.read finds for element i: where key and value begin and end.   *)
readElem(elems, i) ==
  LET key   == elemAt(i) + posOf(elems[i])
      value == key + ksizeOf(elems[i])
  IN [flags |-> flagsOf(elems[i]), key |-> key, value |-> value,
      end |-> value + vsizeOf(elems[i])]
=============================================================================
