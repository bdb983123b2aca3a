-------------------------------- MODULE MCVi --------------------------------
EXTENDS Editor

ASSUME ViAssumption == V!Fit

MCFiles == {<<>>, << <<"x", "sp">> >>,
            << <<"x", ".", "x">>, <<>>, <<"x", "sp">>, <<"x">> >>}

MCSpec == V!Spec
=============================================================================
