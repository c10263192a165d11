\* A mutation and a query; the app-server may stop reading its input.
CONSTANTS
  Mutations = {m1}
  Queries = {q1}
SPECIFICATION StalledSpec
PROPERTIES MutationsEnd
