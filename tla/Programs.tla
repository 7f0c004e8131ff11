------------------------------- MODULE Programs -------------------------------
(***************************************************************************)
(* The small programs of the repository, one of which runs.  They share    *)
(* nothing: those that do not run stay where they begin.                   *)
(***************************************************************************)
EXTENDS PacketServer, UdpPicture, WordCounter, IntervalMap, TradeEngine, Equalization, SmallAlgorithms

VARIABLE program

programVars ==
  <<program, packetVars, udpVars, wordVars, mapVars, marketVars, imageVars, call>>

\* The inputs of a program that does not run do not matter.
IdleInputs ==
  /\ program = "picture" \/ picture_fileName = CHOOSE p \in Pictures : TRUE
  /\ program = "words" \/ (t_num = (CHOOSE c \in Cores : TRUE) % MAX_THREADS
                           /\ content = CHOOSE f \in Files : TRUE)
  /\ program = "intervals" \/ m_valBegin = CHOOSE v \in Values : TRUE
  /\ program = "image" \/ (original = (CHOOSE i \in Images : TRUE)
                           /\ hist = CHOOSE m \in Memory : TRUE)

ProgramsInit ==
  /\ program \in {"packets", "picture", "words", "intervals", "market", "image", "functions"}
  /\ PacketInit /\ UdpInit /\ WordInit /\ MapInit /\ MarketInit /\ EqualizationInit /\ CallInit
  /\ IdleInputs

ProgramsNext ==
  /\ UNCHANGED program
  /\ \/ /\ program = "packets" /\ PacketNext
        /\ UNCHANGED <<udpVars, wordVars, mapVars, marketVars, imageVars, call>>
     \/ /\ program = "picture" /\ UdpNext
        /\ UNCHANGED <<packetVars, wordVars, mapVars, marketVars, imageVars, call>>
     \/ /\ program = "words" /\ WordNext
        /\ UNCHANGED <<packetVars, udpVars, mapVars, marketVars, imageVars, call>>
     \/ /\ program = "intervals" /\ MapNext
        /\ UNCHANGED <<packetVars, udpVars, wordVars, marketVars, imageVars, call>>
     \/ /\ program = "market" /\ OrderArrives
        /\ UNCHANGED <<packetVars, udpVars, wordVars, mapVars, imageVars, call>>
     \/ /\ program = "image" /\ EqualizationNext
        /\ UNCHANGED <<packetVars, udpVars, wordVars, mapVars, marketVars, call>>
     \/ /\ program = "functions" /\ call = [of |-> "nothing"] /\ CallNext
        /\ UNCHANGED <<packetVars, udpVars, wordVars, mapVars, marketVars, imageVars>>

ProgramsSpec ==
  /\ ProgramsInit /\ [][ProgramsNext]_programVars
  /\ (program = "packets" => PacketFairness)
  /\ (program = "picture" => UdpFairness)
  /\ (program = "words" => WordFairness)

\* Types of the programs' variables.
ProgramsTypeOK == PacketTypeOK /\ UdpTypeOK /\ WordTypeOK /\ MapTypeOK /\ MarketTypeOK
===============================================================================
