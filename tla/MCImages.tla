------------------------------ MODULE MCImages ------------------------------
(***************************************************************************)
(* The tools that make files to be flashed: the sparse converter of        *)
(* SparseImage, the packers of Packers, the GPT restore image of           *)
(* GptRestore and the cache image of CacheImage. Each is a program of its  *)
(* own that shares nothing with the others; `tool` is the one that runs,   *)
(* and the others stay in one initial state.                               *)
(***************************************************************************)
EXTENDS SparseImage, Packers, GptRestore, CacheImage

VARIABLE tool   \* "sparse", "pack", "gpt", "cache"

ASSUME ImagesAssumption ==
  /\ PagesAssumption /\ SizesAssumption
  /\ SizeAssumption
  /\ OffsetAssumption /\ LengthAssumption

allVars == <<tool, vars, packVars, gptVars, cacheVars>>

ImagesInit ==
  /\ tool \in {"sparse", "pack", "gpt", "cache"}
  /\ tool = "sparse" \/ (tool # "sparse" /\ raw = <<>>)
  /\ tool = "pack" \/ (tool # "pack" /\ job = [tool |-> "dtbo", dtb |-> 1, magic |-> "fdt"])
  /\ Init /\ PackInit /\ CacheInit /\ GptInit
  /\ tool # "sparse" => part[0] = ZeroBlk
  /\ tool # "gpt" => had /\ disk[0].of = "old"

SparseStep == tool = "sparse" /\ (Convert \/ Verify) /\ UNCHANGED <<tool, packVars, gptVars, cacheVars>>

ImagesNext ==
  \/ tool = "sparse" /\ Next /\ UNCHANGED <<tool, packVars, gptVars, cacheVars>>
  \/ tool = "pack" /\ PackNext /\ UNCHANGED <<tool, vars, gptVars, cacheVars>>
  \/ tool = "gpt" /\ GptNext /\ UNCHANGED <<tool, vars, packVars, cacheVars>>
  \/ tool = "cache" /\ CacheNext /\ UNCHANGED <<tool, vars, packVars, gptVars>>

ImagesSpec == ImagesInit /\ [][ImagesNext]_allVars /\ WF_allVars(SparseStep)

-----------------------------------------------------------------------------
\* The sparse converter ends with a complete file that verify() accepts, unless
\* a chunk's size does not fit its 32-bit field (mksparse.py 64-147).
SparseConverts == tool = "sparse" => Converts
=============================================================================
