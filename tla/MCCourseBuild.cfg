SPECIFICATION Spec
CONSTANTS
  ConceptIds = {1, 2, 3, 4}
  Files = {"ch1", "ch2", "sat", "ch3", "blog"}
  Looks = {"v", "w", "x", "y", "z"}
  Similar <- MCSimilar
  Sources <- MCSources
  Answers <- MCAnswers
  Proposals <- MCProposals
  Cited <- MCCited
  LinkAnswers <- MCLinkAnswers
  GroupSize = 1
  Pools <- MCPools
  MaxCites = 1
  MaxFaults = 1
INVARIANTS
  TypeOK
  SpineFollowsDocuments
  SpineUnbroken
  NothingFabricated
  RowTellsContent
PROPERTIES
  BackboneKept
  LinkOnlyAdds
