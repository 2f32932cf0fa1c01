------------------------------- MODULE Syntax -------------------------------
(***************************************************************************)
(* Coded syntax structures, for the modules that set a parser of the crate *)
(* beside its writer.                                                      *)
(*                                                                         *)
(* A structure is a record of the fields that decide what is coded: flags  *)
(* and the presence of an Option are 0 or 1, a Vec is its length.  What a  *)
(* function codes is a sequence of elements, each a name and a descriptor; *)
(* fields that decide nothing are names only.  The bits of a descriptor    *)
(* are the business of BitCodes.                                           *)
(***************************************************************************)
EXTENDS Integers, Sequences, SequencesExt

Coded(code, bits, names) ==
    [i \in DOMAIN names |-> [code |-> code, bits |-> bits, name |-> names[i]]]

U(n, names) == Coded("u", n, names)
Flags(names) == Coded("u", 1, names)
UE(names) == Coded("ue", 0, names)
SE(names) == Coded("se", 0, names)

\* The length of a Vec, of which a count of n bits is coded.
Count(n, name) == Coded("count", n, <<name>>)

\* A structure coded by a pair of functions of its own, which are given size.
Sub(name, size) == Coded("struct", size, <<name>>)

When(condition, elements) == IF condition THEN elements ELSE <<>>

\* A flag, and what is coded when it is set.
Gated(v, flag, elements) == Flags(<<flag>>) \o When(v[flag] = 1, elements)

Times(n, elements) == FlattenSeq([i \in 1 .. n |-> elements])

\* The elements of 0 .. n - 1, one after another.
Each(n, Elements(_)) == FlattenSeq([i \in 1 .. n |-> Elements(i - 1)])

Names(elements) == {elements[i].name : i \in DOMAIN elements}

\* What arrives when the fields of v are coded as elements: u(n) keeps n bits of
\* a field, and a field that is not coded is left at zero.  The field given holds
\* what the parser is told beside the bits.
Received(elements, v) ==
    LET named == {e \in ToSet(elements) : e.name \in DOMAIN v}
        cut   == {e \in named : e.code = "u" /\ e.bits < 31}
    IN  [f \in DOMAIN v |->
           IF \E e \in cut : e.name = f
             THEN v[f] % 2^((CHOOSE e \in cut : e.name = f).bits)
             ELSE IF f = "given" \/ \E e \in named : e.name = f THEN v[f] ELSE 0]

\* Whatever the writer accepts, the parser reads the very elements written, in
\* their order and with their descriptors, and accepts them.  Implied adds what
\* the parser derives from the elements when it keeps more than it reads.
ReadsWhatIsWritten(v, Reads(_), Rejects(_), Implied(_, _), Writes(_), Refuses(_)) ==
    ~Refuses(v) =>
        LET written == Writes(v)
            got     == Implied(written, Received(written, v))
        IN  Reads(got) = written /\ ~Rejects(got)

\* Whatever the parser returns, the writer accepts, and writes the very elements
\* that were read.
WritesWhatWasRead(v, Reads(_), Rejects(_), Implied(_, _), Writes(_), Refuses(_)) ==
    ~Rejects(v) =>
        LET read == Reads(v)
        IN  v = Implied(read, Received(read, v)) => ~Refuses(v) /\ Writes(v) = read

\* The parser and the writer of a structure are inverses of each other; what the
\* writer leaves unchecked must fit.
Inverses(v, Fits(_), Reads(_), Rejects(_), Implied(_, _), Writes(_), Refuses(_)) ==
    /\ Fits(v) => ReadsWhatIsWritten(v, Reads, Rejects, Implied, Writes, Refuses)
    /\ WritesWhatWasRead(v, Reads, Rejects, Implied, Writes, Refuses)

\* For a structure of which the parser keeps what it reads, and nothing else.
AsRead(elements, v) == v

\* For a function without early returns, and for one that checks everything.
Never(v) == FALSE
Always(v) == TRUE

=============================================================================
