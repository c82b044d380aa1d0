---------------------------- MODULE MCItchCosim ----------------------------
(* ItchCosim on every single message of the table, right or one byte short or     *)
(* long, and on every file of three frames, sound, short, empty, unknown or long, *)
(* whole or cut off in its last frame.                                            *)
EXTENDS ItchCosim

Types == {"S", "R", "H", "Y", "L", "V", "W", "K", "J", "h", "A", "F", "E", "C", "X",
          "D", "U", "P", "Q", "B", "I", "N"}

Frame1(type, l) == [type |-> type, len |-> l]

Singles == {Frame1(type, SpecLength(type) + d) : type \in Types, d \in {-1, 0, 1}}
           \cup {Frame1("~", l) : l \in {0, 1, 10, 11, 255, 256, 257}}

Mix == {Frame1("A", 36), Frame1("A", 35), Frame1("E", 31), Frame1("U", 35),
        Frame1("X", 23), Frame1("X", 22), Frame1("D", 19), Frame1("S", 12),
        Frame1("S", 13), Frame1("~", 0), Frame1("~", 1), Frame1("~", 11)}

MixedFiles == ({<<f>> : f \in Singles} \X {0, 1, 2, 5})
              \cup ({<<f, g, h>> : f \in Mix, g \in Mix, h \in Mix} \X {0})
              \cup ({<<f, g>> : f \in Mix, g \in Mix} \X {0, 1, 2, 9})

ShortEnough(file) == file[2] <= 2 + file[1][Len(file[1])].len

FilesOfThree == {file \in MixedFiles : ShortEnough(file)}
=============================================================================
