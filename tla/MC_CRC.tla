-------------------------------- MODULE MC_CRC --------------------------------
(* Instances of the CRC engine for TLC.                                    *)
EXTENDS CRC

\* Every 8- and 16-bit preset of crc.py.
MCModels == Catalog

\* The presets whose initial value reads the same reflected (every preset
\* with unreflected input, and the reflected ones with a bit-palindromic
\* initial value).
MCSoundModels == {m \in Catalog : ~m.refin \/ reflect(m.init, m.width) = m.init}

\* Bytes with the low, the high and no bit set, and an ASCII digit.
MCBytes == {\h00, \h01, \h31, \h80, \hff}
==============================================================================
