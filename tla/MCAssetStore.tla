---------------------------- MODULE MCAssetStore ----------------------------
(* Model values for AssetStore.                                            *)
EXTENDS AssetStore, TLC

AssetSymmetry == Permutations(Assets)
=============================================================================
