---------------------------- MODULE MCAssembler ----------------------------
(***************************************************************************)
(* Source files for TLC.                                                   *)
(***************************************************************************)
EXTENDS AssemblerSpec

r(n)  == Register(n)
loop  == Name("loop")
data  == Name("data")
rest  == RName("rest")

(* Jumps and whatever moves a label, some of it indented or with a comment. *)
Flow ==
  {NoMargin(t) : t \in {Label(loop), Label(data), Code("JMP", <<loop>>),
     Code("BJMP", <<Name("LT"), rest>>), Code("CALL", <<data>>), Code("WORD", <<loop>>),
     Code("MOV", <<r(1), data>>)}}
  \union {WithMargin(t) : t \in {Blank, Label(loop), Label(rest), Code("RET", << >>)}}

(* One instruction of every kind, with fields at the ends of their ranges, *)
(* and lines that are wrong in each way that goes unnoticed or throws.     *)
Kinds ==
  {NoMargin(t) : t \in
  {Code(op, <<r(31), r(1), r(16)>>) : op \in ThreeRegisters} \union
  {Code(op, << >>) : op \in Bare \union {"PUSH"}} \union
  {Code("CMP", <<r(21), t>>) : t \in {r(30), Literal(-262144), Literal(262143)}} \union
  {Code("MOV", <<r(10), t>>) : t \in {r(5), Literal(-1048576), Literal(1048575), rest, Huge}} \union
  {Code(op, <<r(7), Indirect(Literal(n), r(28))>>) :
     op \in {"LOADW", "STOREW"}, n \in {-32768, 4, 32767}} \union
  {Code(op, <<r(19)>>) : op \in Stack} \union
  {Code("CSRR", <<r(3), Name(c)>>) : c \in {"EPC", "SP", "CYCLES"}} \union
  {Code("CSRW", <<Name("STATUS"), t>>) : t \in {r(17), Literal(1)}} \union
  {Code("BJMP", <<Name(c), loop>>) : c \in {"EQ", "NE", "LE", "GT", "GE", "CS"}} \union
  {Code("WORD", <<t>>) : t \in {Literal(123456789), Literal(-7), Literal(4), Huge}} \union
  {Code("JMP", <<Literal(4)>>), Code("LOADW", <<r(1), Literal(4)>>),
   Code("ADD", <<r(1), r(2), Literal(5)>>), Code("ADDI", <<r(1), r(2), Literal(10)>>)}}

Files(lines, n) == UNION {[1 .. k -> lines] : k \in 1 .. n}

AssemblerFiles == Files(Flow, 4) \union Files(Kinds \union {NoMargin(Label(loop))}, 2)
=============================================================================
