---------------------------- MODULE IfSpecBuilder ---------------------------
(***************************************************************************)
(* CIfSpecBuilder (src/core/utils/ifSpecBuilder.h): the builder a block    *)
(* type uses to declare its event and data ports, the with-bindings of     *)
(* events to data and its adapters, and to compile them into an            *)
(* SFBInterfaceSpec.                                                       *)
(*                                                                         *)
(* Names and type names are abstracted away: a port is its index.  A port  *)
(* reference is a TDataIOID of RefWidth bits whose largest value is the    *)
(* invalid sentinel; a with-table entry of that value terminates an        *)
(* event's binding list in the compiled table (see scm_anEIWith in         *)
(* src/modules/embrick/types/Master.cpp).  The client holds only the      *)
(* references the builder handed out, plus the sentinel a failed lookup   *)
(* (operator[] on an unknown name) returns.                                *)
(***************************************************************************)
EXTENDS Integers, Sequences, SequencesExt

CONSTANTS
  Dirs,       (* port directions: input and output sub-builders          *)
  RefWidth,   (* bits of TDataIOID                                       *)
  MaxItems,   (* CFunctionBlock::scm_nMaxInterfaceEvents                 *)
  RangeSizes, (* range sizes a client may request                        *)
  MaxCalls,   (* bound on builder calls before build                      *)
  MaxBindList,(* bound on the length of a bind(event, {data...}) list    *)
  MaxAdapters (* adapter ceiling of a block type                         *)

ASSUME /\ RefWidth \in Nat \ {0}
       /\ MaxItems \in Nat \ {0}
       /\ MaxItems < 2^RefWidth - 1
       /\ RangeSizes \subseteq Int
       /\ MaxCalls \in Nat /\ MaxBindList \in Nat \ {0}
       /\ MaxAdapters \in Nat

VARIABLES
  evCount,    (* [Dirs -> Nat]: names in the event sub-builder's list     *)
  evGood,     (* [Dirs -> BOOLEAN]: CEventSpecBuilderBase::m_bIsGood      *)
  dataCount,  (* [Dirs -> Nat]: names in the data sub-builder             *)
  typeCount,  (* [Dirs -> Nat]: type names in the data sub-builder        *)
  dataGood,   (* [Dirs -> BOOLEAN]: CDataSpecBuilderBase::m_bIsGood       *)
  with,       (* [Dirs -> [event -> Seq(data)]]: bound data per event     *)
  withGood,   (* [Dirs -> BOOLEAN]: CWithSpecBuilderBase::m_bIsGood       *)
  adapters,   (* Seq(BOOLEAN): isPlug of every adapter, in order           *)
  evHeld,     (* [Dirs -> SUBSET Handle]: event references the client holds *)
  dataHeld,   (* [Dirs -> SUBSET Handle]: data references the client holds  *)
  built,      (* "none" before build, else what build returned: "true"/"false" *)
  table,      (* [Dirs -> [with: Seq, indexes: Seq]]: the compiled withs   *)
  calls,      (* history: builder calls made                               *)
  callsValid, (* history: every operand so far named a declared port and   *)
              (* every range size was positive                            *)
  requested   (* history: [Dirs -> Seq]: the (event port, data port)      *)
              (* pairs the client asked to bind, in call order            *)

vars == <<evCount, evGood, dataCount, typeCount, dataGood, with, withGood,
          adapters, evHeld, dataHeld, built, table, calls, callsValid,
          requested>>

(* The invalid reference and with-table terminator (scmMaxRefValue).        *)
Sentinel == 2^RefWidth - 1
RefValues == 0..Sentinel
Events == 0..(Sentinel - 1)

-----------------------------------------------------------------------------
(* CSpecReference and CSpecReferenceRange.                                 *)

(* Mutant of ToRef: the index is not narrowed to TDataIOID.                *)
ToRefWide(i) == IF i < 0 THEN Sentinel ELSE i

(* CSpecReference(int): negative means invalid, otherwise the index is     *)
(* narrowed to TDataIOID.                                                  *)
ToRef(i) == IF i < 0 THEN Sentinel ELSE i % 2^RefWidth

IsValid(r) == r # Sentinel

RangeIsValid(rng) == IsValid(rng.first) /\ IsValid(rng.last)

(* range[offset]: the port at first + offset, or invalid outside the range. *)
RangeAt(rng, offset) ==
  LET id == rng.first + offset
  IN ToRef(IF RangeIsValid(rng) /\ id >= rng.first /\ id <= rng.last
             THEN id ELSE -1)

(* A reference the client holds, with the port it was obtained for (-1     *)
(* when it names no port).                                                 *)
Handle(ref, port) == [ref |-> ref, port |-> port]
Added(i) == Handle(ToRef(i), i)
NotFound == Handle(ToRef(-1), -1)

(* CStringIdListSpecBuilder::isGood: the list is within its capacity.       *)
ListGood(n) == n <= MaxItems

(* A binding the client asks for: the ports the references were got for.    *)
Pair(e, p) == [ev |-> e.port, data |-> p]

(* Record the bindings a call asks for.  Once a call has named no port the *)
(* build can no longer succeed, and the history is no longer kept.         *)
Request(d, pairs) ==
  requested' = IF callsValid' THEN [requested EXCEPT ![d] = @ \o pairs]
                              ELSE [x \in Dirs |-> <<>>]

-----------------------------------------------------------------------------
Bump == /\ calls < MaxCalls
        /\ calls' = calls + 1

Frozen == built = "none"

(* addEvent: the name is appended whatever the builder's status, and its    *)
(* index is returned as a reference.                                       *)
AddEvent(d) ==
  /\ Frozen /\ Bump
  /\ evCount' = [evCount EXCEPT ![d] = @ + 1]
  /\ evHeld' = [evHeld EXCEPT ![d] = @ \cup {Added(evCount[d])}]
  /\ UNCHANGED <<evGood, dataCount, typeCount, dataGood, with, withGood,
                 adapters, dataHeld, built, table, callsValid, requested>>

(* The range [first, last] that adding n ports to a list of count returns;  *)
(* a non-positive size yields (-1, -1).                                     *)
NewRange(count, n) ==
  IF n > 0 THEN [first |-> ToRef(count), last |-> ToRef(count + n - 1)]
           ELSE [first |-> ToRef(-1), last |-> ToRef(-1)]

(* The references a client obtains from the range returned for n ports     *)
(* appended to a list of count: its first and last port and one offset     *)
(* past its end.                                                           *)
RangeRefs(count, n) ==
  { Handle(RangeAt(NewRange(count, n), k),
           IF n > 0 /\ k \in 0..(n - 1) THEN count + k ELSE -1) :
      k \in {0, n - 1, n} }

(* addEventRange(prefix, n): n numbered ports, or poison on a bad size.      *)
AddEventRange(d, n) ==
  /\ Frozen /\ Bump
  /\ evCount' = [evCount EXCEPT ![d] = @ + (IF n > 0 THEN n ELSE 0)]
  /\ evGood' = [evGood EXCEPT ![d] = @ /\ n > 0]
  /\ evHeld' = [evHeld EXCEPT ![d] = @ \cup RangeRefs(evCount[d], n)]
  /\ callsValid' = (callsValid /\ n > 0)
  /\ Request(d, <<>>)
  /\ UNCHANGED <<dataCount, typeCount, dataGood, with, withGood, adapters,
                 dataHeld, built, table>>

(* addData(name, type): name and type lists grow in lock-step; the index    *)
(* returned is the type list's.                                            *)
AddData(d) ==
  /\ Frozen /\ Bump
  /\ dataCount' = [dataCount EXCEPT ![d] = @ + 1]
  /\ typeCount' = [typeCount EXCEPT ![d] = @ + 1]
  /\ dataHeld' = [dataHeld EXCEPT ![d] = @ \cup {Added(typeCount[d])}]
  /\ UNCHANGED <<evCount, evGood, dataGood, with, withGood, adapters, evHeld,
                 built, table, callsValid, requested>>

AddDataRange(d, n) ==
  /\ Frozen /\ Bump
  /\ dataCount' = [dataCount EXCEPT ![d] = @ + (IF n > 0 THEN n ELSE 0)]
  /\ typeCount' = [typeCount EXCEPT ![d] = @ + (IF n > 0 THEN n ELSE 0)]
  /\ dataGood' = [dataGood EXCEPT ![d] = @ /\ n > 0]
  /\ dataHeld' = [dataHeld EXCEPT ![d] = @ \cup RangeRefs(dataCount[d], n)]
  /\ callsValid' = (callsValid /\ n > 0)
  /\ Request(d, <<>>)
  /\ UNCHANGED <<evCount, evGood, with, withGood, adapters, evHeld, built,
                 table>>

-----------------------------------------------------------------------------
(* CWithSpecBuilder: every bind first folds the validity of its operands    *)
(* into m_bIsGood (check), and binds only while the builder is still good. *)

Named(h) == h.port >= 0

(* Mutant of Bind: check() assigns m_bIsGood instead of and-ing into it.    *)
BindForgetful(d, e, x) ==
  LET ok == IsValid(e.ref) /\ IsValid(x.ref)
  IN /\ Frozen /\ Bump
     /\ withGood' = [withGood EXCEPT ![d] = ok]
     /\ with' = IF ok THEN [with EXCEPT ![d][e.ref] = Append(@, x.ref)]
                      ELSE with
     /\ callsValid' = (callsValid /\ Named(e) /\ Named(x))
     /\ Request(d, <<Pair(e, x.port)>>)
     /\ UNCHANGED <<evCount, evGood, dataCount, typeCount, dataGood, adapters,
                    evHeld, dataHeld, built, table>>

(* bind(event, data)                                                        *)
Bind(d, e, x) ==
  LET ok == withGood[d] /\ IsValid(e.ref) /\ IsValid(x.ref)
  IN /\ Frozen /\ Bump
     /\ withGood' = [withGood EXCEPT ![d] = ok]
     /\ with' = IF ok THEN [with EXCEPT ![d][e.ref] = Append(@, x.ref)]
                      ELSE with
     /\ callsValid' = (callsValid /\ Named(e) /\ Named(x))
     /\ Request(d, <<Pair(e, x.port)>>)
     /\ UNCHANGED <<evCount, evGood, dataCount, typeCount, dataGood, adapters,
                    evHeld, dataHeld, built, table>>

(* bind(event, {data, ...}): check the event, then bind the list in order   *)
(* up to the first invalid reference, which poisons the builder.           *)
BindList(d, e, xs) ==
  LET okEvent == withGood[d] /\ IsValid(e.ref)
      firstBad == SelectInSeq(xs, LAMBDA h : ~IsValid(h.ref))
      bound == IF firstBad = 0 THEN xs ELSE SubSeq(xs, 1, firstBad - 1)
      refs == [i \in 1..Len(bound) |-> bound[i].ref]
  IN /\ Frozen /\ Bump
     /\ withGood' = [withGood EXCEPT ![d] = okEvent /\ firstBad = 0]
     /\ with' = IF okEvent THEN [with EXCEPT ![d][e.ref] = @ \o refs]
                           ELSE with
     /\ callsValid' = (callsValid /\ Named(e) /\ \A i \in 1..Len(xs) : Named(xs[i]))
     /\ Request(d, [i \in 1..Len(xs) |-> Pair(e, xs[i].port)])
     /\ UNCHANGED <<evCount, evGood, dataCount, typeCount, dataGood, adapters,
                    evHeld, dataHeld, built, table>>

(* Mutant of BindRange: the last port of the range is left out.           *)
BindRangeShort(d, e, f, l) ==
  LET ok == withGood[d] /\ IsValid(e.ref) /\ IsValid(f.ref) /\ IsValid(l.ref)
  IN /\ Frozen /\ Bump
     /\ withGood' = [withGood EXCEPT ![d] = ok]
     /\ with' = IF ok
                  THEN [with EXCEPT ![d][e.ref] =
                          @ \o [i \in 1..(l.ref - f.ref) |-> f.ref + i - 1]]
                  ELSE with
     /\ callsValid' = (callsValid /\ Named(e) /\ Named(f) /\ Named(l))
     /\ Request(d, [i \in 1..(l.port - f.port + 1) |->
                         Pair(e, f.port + i - 1)])
     /\ UNCHANGED <<evCount, evGood, dataCount, typeCount, dataGood, adapters,
                    evHeld, dataHeld, built, table>>

(* bindRange(event, first, last) and bindRange(event, range): the data      *)
(* ports first..last in order.                                             *)
BindRange(d, e, f, l) ==
  LET ok == withGood[d] /\ IsValid(e.ref) /\ IsValid(f.ref) /\ IsValid(l.ref)
  IN /\ Frozen /\ Bump
     /\ withGood' = [withGood EXCEPT ![d] = ok]
     /\ with' = IF ok
                  THEN [with EXCEPT ![d][e.ref] =
                          @ \o [i \in 1..(l.ref - f.ref + 1) |-> f.ref + i - 1]]
                  ELSE with
     /\ callsValid' = (callsValid /\ Named(e) /\ Named(f) /\ Named(l))
     /\ Request(d, [i \in 1..(l.port - f.port + 1) |->
                         Pair(e, f.port + i - 1)])
     /\ UNCHANGED <<evCount, evGood, dataCount, typeCount, dataGood, adapters,
                    evHeld, dataHeld, built, table>>

(* addAdapter through m_oIAdapter (socket) or m_oOAdapter (plug).           *)
AddAdapter(isPlug) ==
  /\ Frozen /\ Bump
  /\ adapters' = Append(adapters, isPlug)
  /\ UNCHANGED <<evCount, evGood, dataCount, typeCount, dataGood, with,
                 withGood, evHeld, dataHeld, built, table, callsValid,
                 requested>>

-----------------------------------------------------------------------------
(* CEventSpecBuilderBase::isGood and CDataSpecBuilderBase::isGood: the     *)
(* name lists are within capacity and no call poisoned the sub-builder.    *)
EventGood(d) == ListGood(evCount[d]) /\ evGood[d]

DataGood(d) == ListGood(dataCount[d]) /\ ListGood(typeCount[d]) /\ dataGood[d]

(* CIfSpecBuilder::isGood: every sub-builder is good, and the adapters fit  *)
(* the block type's adapter ceiling.                                       *)
BuilderGood ==
  /\ \A d \in Dirs : EventGood(d) /\ DataGood(d) /\ withGood[d]
  /\ Len(adapters) <= MaxAdapters

(* The with-table of SFBInterfaceSpec: for each event with bindings, its    *)
(* data ids followed by the terminator; an event's index is the offset of  *)
(* its list, or -1 when it has none.                                       *)
BoundTo(w, e) == IF e \in DOMAIN w THEN w[e] ELSE <<>>

Chunk(w, e) == IF BoundTo(w, e) = <<>> THEN <<>> ELSE BoundTo(w, e) \o <<Sentinel>>

EncodeWith(w, n) ==
  [with |-> FlattenSeq([k \in 1..n |-> Chunk(w, k - 1)]),
   indexes |-> [k \in 1..n |->
                  IF BoundTo(w, k - 1) = <<>> THEN -1
                  ELSE Len(FlattenSeq([j \in 1..(k - 1) |-> Chunk(w, j - 1)]))]]

(* build: fill the interface spec from the sub-builders; returns isGood.    *)
Build ==
  /\ Frozen
  /\ built' = IF BuilderGood THEN "true" ELSE "false"
  /\ table' = [d \in Dirs |-> EncodeWith(with[d], evCount[d])]
  /\ UNCHANGED <<evCount, evGood, dataCount, typeCount, dataGood, with,
                 withGood, adapters, evHeld, dataHeld, calls, callsValid,
                 requested>>

-----------------------------------------------------------------------------
Init ==
  /\ evCount = [d \in Dirs |-> 0]
  /\ evGood = [d \in Dirs |-> TRUE]
  /\ dataCount = [d \in Dirs |-> 0]
  /\ typeCount = [d \in Dirs |-> 0]
  /\ dataGood = [d \in Dirs |-> TRUE]
  /\ with = [d \in Dirs |-> [e \in Events |-> <<>>]]
  /\ withGood = [d \in Dirs |-> TRUE]
  /\ adapters = <<>>
  /\ evHeld = [d \in Dirs |-> {NotFound}]
  /\ dataHeld = [d \in Dirs |-> {NotFound}]
  /\ built = "none"
  /\ table = [d \in Dirs |-> [with |-> <<>>, indexes |-> <<>>]]
  /\ calls = 0
  /\ callsValid = TRUE
  /\ requested = [d \in Dirs |-> <<>>]

Next ==
  \/ \E d \in Dirs :
       \/ AddEvent(d)
       \/ AddData(d)
       \/ \E n \in RangeSizes : AddEventRange(d, n) \/ AddDataRange(d, n)
       \/ \E e \in evHeld[d], x \in dataHeld[d] : Bind(d, e, x)
       \/ \E e \in evHeld[d], xs \in BoundedSeq(dataHeld[d], MaxBindList) :
            BindList(d, e, xs)
       \/ \E e \in evHeld[d], f, l \in dataHeld[d] : BindRange(d, e, f, l)
  \/ \E isPlug \in BOOLEAN : AddAdapter(isPlug)
  \/ Build

Spec == Init /\ [][Next]_vars

-----------------------------------------------------------------------------
TypeOK ==
  /\ \A d \in Dirs :
       /\ {evCount[d], dataCount[d], typeCount[d]} \subseteq Nat
       /\ {evGood[d], dataGood[d], withGood[d]} \subseteq BOOLEAN
       /\ \A e \in Events : with[d][e] \in Seq(RefValues)
       /\ \A h \in evHeld[d] \cup dataHeld[d] : h.ref \in RefValues
  /\ adapters \in Seq(BOOLEAN)
  /\ built \in {"none", "true", "false"}
  /\ calls \in 0..MaxCalls
  /\ callsValid \in BOOLEAN

(* build fails closed: it succeeds exactly when every call named declared   *)
(* ports, every range size was positive and every list stayed within its   *)
(* capacity (spec section 8, first property).                              *)
BuildFailsClosed ==
  built # "none" =>
    ((built = "true") <=> /\ callsValid
                         /\ \A d \in Dirs : ListGood(evCount[d]) /\ ListGood(dataCount[d])
                         /\ Len(adapters) <= MaxAdapters)

(* The data ids of an event's list in a compiled with-table, read from its  *)
(* index up to the terminator, as a block instance reads them.             *)
RECURSIVE ReadWith(_, _)
ReadWith(w, i) ==
  IF i > Len(w) \/ w[i] = Sentinel THEN <<>>
  ELSE <<w[i]>> \o ReadWith(w, i + 1)

(* The data ports the client asked to bind to event port e, in call order. *)
RequestedFor(d, e) ==
  LET mine == SelectSeq(requested[d], LAMBDA r : r.ev = e)
  IN [i \in 1..Len(mine) |-> mine[i].data]

(* A successful build yields a with-table in which every event's list,     *)
(* read from its index up to the terminator as a block instance reads it,  *)
(* is exactly the data ports the client passed to bind, bind(list) and     *)
(* bindRange for that event, in call order: no binding is lost, added,     *)
(* narrowed onto another port or cut short by a terminator-valued id.      *)
BuildBindsRequested ==
  built = "true" =>
    \A d \in Dirs : \A k \in 1..evCount[d] :
      LET idx == table[d].indexes[k]
          read == IF idx = -1 THEN <<>> ELSE ReadWith(table[d].with, idx + 1)
      IN read = RequestedFor(d, k - 1)
=============================================================================
