------------------------------ MODULE MCCurves ------------------------------
(***************************************************************************)
(* Small instances of the elliptic curve modules.  A behaviour is one call *)
(* of one of them; the variables of the others are idle.                   *)
(***************************************************************************)
EXTENDS EcCurve, EcSchemes, X25519, Ed25519

(* ------------------------------ instances ------------------------------- *)
\* y^2 = x^3 - 3x + 25 over 31, which has 23 points; one bit above the order.
MCKeysDraws == {0, 1, 22, 23, 31, 32, 35, 54, 55, 63}
\* y^2 = x^3 - 3x + 25 over 31: 23 points.
MCEcdhScalars == {0, 1, 2, 9, 17, 22, 23, 31}
\* Off the curve, not reduced, of no known kind, of another length.
MCEcdhForeign == {<<4, 0, 6>>, <<4, 1, 1>>, <<4, 31, 5>>, <<2, 31>>, <<2, 1>>, <<5, 0>>, <<0, 0>>, <<4, 0>>, <<2, 0, 5>>}
\* y^2 = x^3 - 3x + 25 over 31, 23 points; bytes of two bits.
MCEcdsaDigests == {0, 1, 7, 15, 183, 187, 255}
\* Modulo 2^8 - 5 = 251 in three limbs of three bits.
MCFoldRights == {0, 1, 2, 5, 7, 8, 63, 64, 100, 125, 126, 127, 128, 192, 245, 246, 247, 248, 249, 250}
\* -x^2 + y^2 = 1 + 3x^2y^2 over 53 has 8 * 7 points.
MCEdArithWide == {0, 6, 7, 8, 13, 14, 255, 256, 4095, 4096, 32768, 43690, 65533, 65534, 65535}
MCEdArithFactors == {0, 1, 6, 7, 64, 120, 128, 254, 255}

(* --------------------------- one call at a time ------------------------- *)
CONSTANT Idle   \* held by the variables of a call that is not made

Calls == {"field", "multiple", "keys", "ecdh", "ecdsa", "fold", "x25519", "edwards",
          "ed25519"}
VARIABLE running   \* the call that is made
vars == <<running, fieldVars, multVars, keysVars, ecdhVars, ecdsaVars, foldVars, xVars,
          edArithVars, edSignVars>>

FieldIdle ==
  /\ fieldM = Idle /\ fieldOp = Idle /\ fieldA = Idle /\ fieldB = Idle
  /\ product = Idle /\ outer = Idle /\ fieldOut = Idle /\ ok = Idle /\ fieldPc = Idle
MultIdle ==
  /\ multOp = Idle /\ multPoint = Idle /\ multScalar = Idle /\ r0 = Idle /\ r1 = Idle
  /\ position = Idle /\ encoding = Idle /\ multOut = Idle /\ multPc = Idle
KeysIdle ==
  /\ scheme = Idle /\ keysOp = Idle /\ keysRequest = Idle /\ keysPrivate = Idle
  /\ keysPublic = Idle /\ drawn = Idle /\ keysError = Idle /\ keysPc = Idle
EcdhIdle ==
  /\ ecdhRequest = Idle /\ ecdhPrivate = Idle /\ ecdhPeer = Idle /\ ecdhPoint = Idle
  /\ multiplied = Idle /\ ecdhSecret = Idle /\ ecdhError = Idle /\ ecdhPc = Idle
EcdsaIdle ==
  /\ ecdsaOp = Idle /\ ecdsaD = Idle /\ digest = Idle /\ digestBytes = Idle
  /\ key = Idle /\ ecdsaValue = Idle /\ generated = Idle /\ attempt = Idle
  /\ found = Idle /\ nonce = Idle /\ history = Idle /\ ecdsaSignature = Idle
  /\ ecdsaError = Idle /\ ecdsaPc = Idle
FoldIdle ==
  /\ foldOp = Idle /\ foldA = Idle /\ foldB = Idle /\ foldValue = Idle /\ pass = Idle
  /\ foldOut = Idle /\ foldPc = Idle
XIdle ==
  /\ xOp = Idle /\ xRequest = Idle /\ xPrivate = Idle /\ xPeer = Idle /\ x2 = Idle
  /\ z2 = Idle /\ x3 = Idle /\ z3 = Idle /\ swap = Idle /\ bit = Idle /\ xSecret = Idle
  /\ xPublic = Idle /\ private0 = Idle /\ xError = Idle /\ xPc = Idle
EdArithIdle ==
  /\ edArithOp = Idle /\ edArithPoint = Idle /\ other = Idle /\ edArithScalar = Idle
  /\ wide = Idle /\ acc = Idle /\ rest = Idle /\ edArithOut = Idle /\ edArithPc = Idle
EdSignIdle ==
  /\ edSignOp = Idle /\ edSignRequest = Idle /\ expanded = Idle /\ nonceDigest = Idle
  /\ challengeDigest = Idle /\ publicKey = Idle /\ edSignPublic = Idle
  /\ edSignPrivate = Idle /\ edSignSignature = Idle /\ localR = Idle
  /\ edSignError = Idle /\ edSignPc = Idle

Init ==
  /\ running \in Calls
  /\ IF running = "field"     THEN FieldInit   ELSE FieldIdle
  /\ IF running = "multiple"  THEN MultInit    ELSE MultIdle
  /\ IF running = "keys"      THEN KeysInit    ELSE KeysIdle
  /\ IF running = "ecdh"      THEN EcdhInit    ELSE EcdhIdle
  /\ IF running = "ecdsa"     THEN EcdsaInit   ELSE EcdsaIdle
  /\ IF running = "fold"      THEN FoldInit    ELSE FoldIdle
  /\ IF running = "x25519"    THEN XInit       ELSE XIdle
  /\ IF running = "edwards"   THEN EdArithInit ELSE EdArithIdle
  /\ IF running = "ed25519"   THEN EdSignInit  ELSE EdSignIdle
Next ==
  /\ UNCHANGED running
  /\ IF running = "field"     THEN FieldNext   ELSE UNCHANGED fieldVars
  /\ IF running = "multiple"  THEN MultNext    ELSE UNCHANGED multVars
  /\ IF running = "keys"      THEN KeysNext    ELSE UNCHANGED keysVars
  /\ IF running = "ecdh"      THEN EcdhNext    ELSE UNCHANGED ecdhVars
  /\ IF running = "ecdsa"     THEN EcdsaNext   ELSE UNCHANGED ecdsaVars
  /\ IF running = "fold"      THEN FoldNext    ELSE UNCHANGED foldVars
  /\ IF running = "x25519"    THEN XNext       ELSE UNCHANGED xVars
  /\ IF running = "edwards"   THEN EdArithNext ELSE UNCHANGED edArithVars
  /\ IF running = "ed25519"   THEN EdSignNext  ELSE UNCHANGED edSignVars
Spec == Init /\ [][Next]_vars


(* ------------------------------ properties ------------------------------ *)
(* The field elements of all three curve families are the reduced residues whatever
   carries arose; the formulas for adding points are complete, and every window of a
   scalar multiplication holds the multiple of the point that the bits read so far
   say. *)
CurveArithmeticIsExact ==
  /\ running = "field"    => RowsAccumulate /\ ResultIsInField /\ BytesComeBack
  /\ running = "multiple" => /\ AdditionIsComplete /\ LoopKeepsMultiple /\ MultipleIsExact
                             /\ DecodingIsCanonical
  /\ running = "fold"     => PassesSuffice /\ ResultIsReduced /\ BytesAreResidues
  /\ running = "edwards"  => /\ AdditionIsLaw /\ WindowsKeepMultiple /\ DecodingIsStrict
                             /\ ReductionKeepsResidue

(* Key pairs are the first valid draw and belong together; a shared secret comes
   only from a point of the curve and is the same on both sides; ECDSA signs with
   the first valid candidate and verification accepts exactly the signatures of the
   digest; a refused call leaves the caller's buffers as it should. *)
EcSchemesHold ==
  /\ running = "keys"  => FirstValidDraw /\ PairBelongs /\ NoHalfPair
  /\ running = "ecdh"  => OnlyCurvePoints /\ SidesAgree /\ RefusalsAreClean
  /\ running = "ecdsa" => /\ NonceIsFirstValid /\ EcdsaSignaturesVerify /\ AcceptsExactly
                          /\ EcdsaFailureLeavesNothing

(* Every step of the Montgomery ladder holds two neighbouring multiples and both
   sides agree on the secret, or both see the all-zero one; what Ed25519 signs
   verifies, and no other encoding of the same signature does; failure leaves no
   secret and no output. *)
Curve25519Holds ==
  /\ running = "x25519"  => /\ LadderKeepsMultiples /\ SharedIsAgreed /\ SmallOrderRefused
                            /\ XFailureLeavesNothing
  /\ running = "ed25519" => /\ EdSignSignaturesVerify /\ AcceptedIsUnique
                            /\ EdSignFailureLeavesNothing
=============================================================================
