------------------------------ MODULE MCGamepad ------------------------------
EXTENDS Gamepad

MCBtnCodes == {305}
MCHatCodes == {16, 17}

=============================================================================
